---------------------------- MODULE Spec2Model ----------------------------
(***************************************************************************)
(* A model of the game core of ticket-to-ride: the Manager (phase machine, *)
(* lobby, turn ownership, end of game), the Player action handlers, the    *)
(* CardDealer and the Map.                                                  *)
(*                                                                         *)
(* Shuffles are modelled by their outcome: the closed and discarded train  *)
(* card decks are multisets (colour -> count) and a draw from the closed   *)
(* deck yields any colour still in it, which is exactly the set of results *)
(* a uniformly shuffled Vec popped from its end can give.  Human-readable  *)
(* descriptions of actions are not modelled.                               *)
(***************************************************************************)
EXTENDS Integers, Sequences, FiniteSets, TLC

\* Option<T>: None and Some(x).  An Option of a colour is the colour or None;
\* an Option of a number or of a boolean is Nil or Some(x).
None == "None"

Nil == <<>>

Some(x) == <<x>>

(***************************************************************************)
(* Bounds of the model.  The program's card census, car budget and player  *)
(* limit are scaled down so that the end of the game lies within reach of  *)
(* an exhaustive search; the source values are given alongside.            *)
(***************************************************************************)
\* manager.rs:15 has MAX_PLAYERS = 5.
MAX_PLAYERS == 2
\* player.rs:12 has NUM_OF_CARS = 45.
NUM_OF_CARS == 4
\* card.rs:14 has NUM_WILD_CARDS = 14.
NUM_WILD_CARDS == 1
\* card.rs:15 has NUM_NON_WILD_CARDS = 12, for each of eight colours.
NUM_NON_WILD_CARDS == 16
\* card.rs:167-198 builds 30 destination cards; the model keeps the first ones.
NumDestinationCards == 9
\* Game actions of the Playing phase are explored while turn < MaxTurn.
MaxTurn == 1
\* The wild and other cards of a dealer whose open deck is normalised.
ReshuffleWildCards == 7
ReshuffleNonWildCards == 3
\* The destination cards of the dealer whose destination deck is driven on
\* its own.
DestinationDeckSize == 5
\* The most threads of THREAD_POOL, and the calls of get_longest_route that
\* are made at the same time.
NumWorkers == 2
NumCalls == 2
\* The requests that are served at the same time against one game.
NumRequests == 2
\* The census of the dealer that is driven on its own, and the most cards
\* discarded to it in one call.
DealerWildCards == 3
DealerNonWildCards == 6
MaxDiscard == 1

(***************************************************************************)
(* Program constants.                                                      *)
(***************************************************************************)
MIN_PLAYERS == 2
NUM_OPEN_TRAIN_CARDS == 5
WILD_CARD_LIMIT == 3
NUM_DRAWN_DESTINATION_CARDS == 3
NUM_DRAWN_INITIAL_TRAIN_CARDS == 4
\* player.rs:119 has points: u8.
POINTS_MODULUS == 256
\* GamePhase::LastTurn: "when a player is left with less than three trains".
LAST_TURN_CARS == 3

(***************************************************************************)
(* card.rs: TrainColor                                                     *)
(***************************************************************************)
TrainColor ==
  {"black", "blue", "green", "orange", "pink", "red", "white", "wild", "yellow"}

\* The colours the scaled census puts in the deck: one real colour and wild.
DeckColors == {"black", "wild"}

is_wild(color) == color = "wild"

is_not_wild(color) == ~is_wild(color)

(***************************************************************************)
(* Multisets of train cards (Vec<TrainColor> whose order is random).       *)
(***************************************************************************)
EmptyDeck == [c \in TrainColor |-> 0]

DeckSize(deck) ==
  deck["black"] + deck["blue"] + deck["green"] + deck["orange"] + deck["pink"]
    + deck["red"] + deck["white"] + deck["wild"] + deck["yellow"]

DeckAdd(deck, c, n) == [deck EXCEPT ![c] = @ + n]

RECURSIVE DeckOfSeq(_)
DeckOfSeq(cards) ==
  IF cards = <<>> THEN EmptyDeck
  ELSE DeckAdd(DeckOfSeq(Tail(cards)), Head(cards), 1)

DeckUnion(a, b) == [c \in TrainColor |-> a[c] + b[c]]

NumNonWild(deck) == DeckSize(deck) - deck["wild"]

\* The cards of the open deck that are present (filter_map over Option).
OpenCards(open) == SelectSeq(open, LAMBDA c : c # None)

CountOf(cards, c) == Cardinality({i \in DOMAIN cards : cards[i] = c})

\* Popping up to n cards off a shuffled deck: every sequence the order can give.
PopUpTo(deck, n) ==
  LET k == IF DeckSize(deck) < n THEN DeckSize(deck) ELSE n
      popped == {cards \in [1..k -> {c \in TrainColor : deck[c] > 0}] :
                   \A c \in TrainColor : CountOf(cards, c) <= deck[c]}
  IN {[cards |-> cards,
       deck |-> [c \in TrainColor |-> deck[c] - CountOf(cards, c)]] :
        cards \in popped}

(***************************************************************************)
(* card.rs: CardDealer.  A dealer is a record                              *)
(*   open_train_card_deck      sequence of colours or None                 *)
(*   close_train_card_deck     multiset                                    *)
(*   discarded_train_card_deck multiset                                    *)
(*   destination_card_deck     sequence; the back (pop_back) is its end    *)
(***************************************************************************)
should_reshuffle_open_train_card_deck(d) ==
  LET open == OpenCards(d.open_train_card_deck)
      wild == Cardinality({i \in DOMAIN open : is_wild(open[i])})
      nonWild == Len(open) - wild
  IN IF wild < WILD_CARD_LIMIT THEN FALSE
     ELSE nonWild + NumNonWild(d.close_train_card_deck)
            + NumNonWild(d.discarded_train_card_deck) >= WILD_CARD_LIMIT
          \* the source returns true only from inside the loop over the two
          \* decks: it needs a non-wild card outside the open deck.
          /\ NumNonWild(d.close_train_card_deck)
               + NumNonWild(d.discarded_train_card_deck) > 0

\* A dealer that never brings the discarded deck back.
leave_discarded_deck(d) == d

maybe_reshuffle_and_swap_discarded_deck(d) ==
  IF DeckSize(d.close_train_card_deck) # 0
       \/ DeckSize(d.discarded_train_card_deck) = 0
  THEN d
  ELSE [d EXCEPT !.close_train_card_deck = d.discarded_train_card_deck,
                 !.discarded_train_card_deck = EmptyDeck]

\* One level of maybe_reshuffle_open_train_card_deck, up to its recursive call.
ReshuffleOnce(d) ==
  LET d1 == [d EXCEPT
               !.discarded_train_card_deck =
                 DeckUnion(@, DeckOfSeq(OpenCards(d.open_train_card_deck))),
               !.open_train_card_deck = <<>>]
  IN UNION {
       LET d2 == maybe_reshuffle_and_swap_discarded_deck(
                   [d1 EXCEPT !.close_train_card_deck = r.deck])
       IN {[d2 EXCEPT !.open_train_card_deck = r.cards \o s.cards,
                      !.close_train_card_deck = s.deck] :
             s \in PopUpTo(d2.close_train_card_deck,
                           NUM_OPEN_TRAIN_CARDS - Len(r.cards))} :
       r \in PopUpTo(d1.close_train_card_deck, NUM_OPEN_TRAIN_CARDS)}

\* The dealers in which the recursion can come to rest, starting from `todo`.
RECURSIVE ReshuffleClosure(_, _)
ReshuffleClosure(todo, seen) ==
  IF todo = {} THEN {d \in seen : ~should_reshuffle_open_train_card_deck(d)}
  ELSE LET next == UNION {ReshuffleOnce(d) :
                            d \in {x \in todo :
                                     should_reshuffle_open_train_card_deck(x)}}
       IN ReshuffleClosure(next \ (seen \cup todo), seen \cup todo)

\* Outcomes [d, reshuffled] of maybe_reshuffle_open_train_card_deck.
maybe_reshuffle_open_train_card_deck(d) ==
  IF ~should_reshuffle_open_train_card_deck(d)
  THEN {[d |-> d, reshuffled |-> FALSE]}
  ELSE {[d |-> e, reshuffled |-> TRUE] : e \in ReshuffleClosure({d}, {})}

\* Outcomes [res, card, d] of draw_from_close_train_card_deck.
draw_from_close_train_card_deck(d) ==
  IF DeckSize(d.close_train_card_deck) = 0
  THEN {[res |-> "Err", card |-> None, d |-> d]}
  ELSE {[res |-> "Ok", card |-> c,
         d |-> maybe_reshuffle_and_swap_discarded_deck(
                 [d EXCEPT !.close_train_card_deck =
                            DeckAdd(d.close_train_card_deck, c, -1)])] :
          c \in {x \in TrainColor : d.close_train_card_deck[x] > 0}}

\* A dealer that takes whatever a slot in range holds, an empty slot included.
peek_at_any_open_train_card(d, card_index) ==
  IF card_index >= Len(d.open_train_card_deck) THEN [res |-> "Err", card |-> None]
  ELSE [res |-> "Ok", card |-> d.open_train_card_deck[card_index + 1]]

\* card_index counts from 0, as in the source.
peek_at_open_train_card(d, card_index) ==
  IF card_index >= Len(d.open_train_card_deck) THEN [res |-> "Err", card |-> None]
  ELSE IF d.open_train_card_deck[card_index + 1] = None
       THEN [res |-> "Err", card |-> None]
       ELSE [res |-> "Ok", card |-> d.open_train_card_deck[card_index + 1]]

\* A dealer that takes the replacement card off the closed deck before it
\* looks at the card asked for.
draw_from_open_train_card_deck_eager(d, card_index, is_second_draw) ==
  LET peek == peek_at_open_train_card(d, card_index)
  IN IF peek.res = "Err"
     THEN {[res |-> "Err", card |-> None, reshuffled |-> FALSE, d |-> d]}
     ELSE UNION {
            LET d1 == [r.d EXCEPT !.open_train_card_deck[card_index + 1] =
                                    IF r.res = "Ok" THEN r.card ELSE None]
            IN IF is_second_draw /\ is_wild(peek.card)
               THEN {[res |-> "Err", card |-> None, reshuffled |-> FALSE, d |-> d1]}
               ELSE {[res |-> "Ok", card |-> peek.card,
                      reshuffled |-> s.reshuffled, d |-> s.d] :
                       s \in maybe_reshuffle_open_train_card_deck(d1)} :
            r \in draw_from_close_train_card_deck(d)}

\* Outcomes [res, card, reshuffled, d] of draw_from_open_train_card_deck.
draw_from_open_train_card_deck(d, card_index, is_second_draw) ==
  LET peek == peek_at_open_train_card(d, card_index)
      failed == {[res |-> "Err", card |-> None, reshuffled |-> FALSE, d |-> d]}
  IN IF peek.res = "Err" THEN failed
     ELSE IF is_second_draw /\ is_wild(peek.card) THEN failed
     ELSE UNION {
            LET d1 == [r.d EXCEPT !.open_train_card_deck[card_index + 1] =
                                    IF r.res = "Ok" THEN r.card ELSE None]
            IN {[res |-> "Ok", card |-> peek.card,
                 reshuffled |-> s.reshuffled, d |-> s.d] :
                  s \in maybe_reshuffle_open_train_card_deck(d1)} :
            r \in draw_from_close_train_card_deck(d)}

\* [res, cards, d]: up to three cards popped off the back, in popping order.
draw_from_destination_card_deck(d) ==
  LET deck == d.destination_card_deck
      n == Len(deck)
      k == IF n < NUM_DRAWN_DESTINATION_CARDS THEN n
           ELSE NUM_DRAWN_DESTINATION_CARDS
  IN IF n = 0 THEN [res |-> "Err", cards |-> <<>>, d |-> d]
     ELSE [res |-> "Ok",
           cards |-> [i \in 1..k |-> deck[n + 1 - i]],
           d |-> [d EXCEPT !.destination_card_deck = SubSeq(deck, 1, n - k)]]

\* A dealer that takes the cards handed back and puts them in no deck.
discard_train_cards_nowhere(d, train_cards) ==
  maybe_reshuffle_and_swap_discarded_deck(d)

discard_train_cards(d, train_cards) ==
  maybe_reshuffle_and_swap_discarded_deck(
    [d EXCEPT !.discarded_train_card_deck = DeckUnion(@, DeckOfSeq(train_cards))])

\* A dealer that puts the cards it gets back where the draws take them.
discard_destination_cards_at_back(d, destination_cards) ==
  [d EXCEPT !.destination_card_deck = @ \o destination_cards]

\* push_front of each card in turn: the last one pushed ends up first.
RECURSIVE discard_destination_cards(_, _)
discard_destination_cards(d, destination_cards) ==
  IF destination_cards = <<>> THEN d
  ELSE discard_destination_cards(
         [d EXCEPT !.destination_card_deck = <<Head(destination_cards)>> \o @],
         Tail(destination_cards))

\* A dealer that lets a player draw again whatever is left.
can_player_draw_again_whatever_is_left(d) == TRUE

\* A dealer that lets a player draw again only from the closed deck.
can_player_draw_again_from_close_deck(d) ==
  DeckSize(d.close_train_card_deck) # 0

can_player_draw_again_this_turn(d) ==
  \/ DeckSize(d.close_train_card_deck) # 0
  \/ \E i \in DOMAIN d.open_train_card_deck :
       d.open_train_card_deck[i] # None /\ is_not_wild(d.open_train_card_deck[i])


(***************************************************************************)
(* city.rs and map.rs.  The model keeps a corner of the US map: the routes *)
(* Dallas-Houston (two parallel routes), Denver-Santa Fe, El Paso-Santa Fe *)
(* and Dallas-El Paso, with the lengths and colours of build_us_map.       *)
(***************************************************************************)
CityOrdinal ==
  [c \in {"Dallas", "Denver", "ElPaso", "Houston", "SantaFe"} |->
     CASE c = "Dallas" -> 5 [] c = "Denver" -> 6 [] c = "ElPaso" -> 8
       [] c = "Houston" -> 10 [] c = "SantaFe" -> 29]

City == DOMAIN CityOrdinal

\* build_us_map: for each pair of adjacent cities, its parallel routes.
US_MAP ==
  << [route |-> <<"Dallas", "Houston">>, length |-> 1,
      train_colors |-> <<"wild", "wild">>],
     [route |-> <<"Denver", "SantaFe">>, length |-> 2,
      train_colors |-> <<"wild">>],
     [route |-> <<"ElPaso", "SantaFe">>, length |-> 2,
      train_colors |-> <<"wild">>],
     [route |-> <<"Dallas", "ElPaso">>, length |-> 4,
      train_colors |-> <<"red">>] >>

\* A mapping whose entry under (end, start) has routes of its own, with their
\* own claimers.
build_separate_city_route_mapping(k) ==
  LET r == US_MAP[k]
      cells == [i \in 1..Len(r.train_colors) |-> <<k, i>>]
      back == [i \in 1..Len(r.train_colors) |-> <<k, i, "back">>]
  IN { <<r.route, cells>>, <<<<r.route[2], r.route[1]>>, back>> }

\* build_bidirectional_city_route_mapping stores the pair under (start, end)
\* and under (end, start); the clone of a Route shares its claimer (an Arc).
\* A route is named here by the claimer cell <<k, i>> both entries point to.
build_bidirectional_city_route_mapping(k) ==
  LET r == US_MAP[k]
      cells == [i \in 1..Len(r.train_colors) |-> <<k, i>>]
  IN { <<r.route, cells>>, <<<<r.route[2], r.route[1]>>, cells>> }

\* The keys of all_parallel_routes and the routes bound to each key.
AllParallelRoutes ==
  UNION {build_bidirectional_city_route_mapping(k) : k \in DOMAIN US_MAP}

RouteKeys == {e[1] : e \in AllParallelRoutes}

ParallelRoutes(route) == (CHOOSE e \in AllParallelRoutes : e[1] = route)[2]

Cells == UNION {{e[2][i] : i \in DOMAIN e[2]} : e \in AllParallelRoutes}

\* A map that lets parallel routes be claimed from three players on.
MapNewParallelFromThree(num_players) ==
  IF num_players < 2 \/ num_players > 5 THEN [res |-> "Err", map |-> None]
  ELSE [res |-> "Ok",
        map |-> [parallel_routes_allowed |-> num_players > 2,
                 claimer |-> [c \in Cells |-> Nil]]]

\* Map::new: num_players in 2..5, every route unclaimed.
MapNew(num_players) ==
  IF num_players < 2 \/ num_players > 5 THEN [res |-> "Err", map |-> None]
  ELSE [res |-> "Ok",
        map |-> [parallel_routes_allowed |-> num_players > 3,
                 claimer |-> [c \in Cells |-> Nil]]]

\* A fold that stops at the first card that is not wild and takes its colour.
CommonColorOfFirst(cards, common_color) ==
  LET idx == {i \in DOMAIN cards : is_not_wild(cards[i])}
  IN IF idx = {} THEN common_color
     ELSE cards[CHOOSE i \in idx : \A j \in idx : i <= j]

\* The colour shared by the cards, ignoring wild cards; "mixed" if there is none.
RECURSIVE CommonColor(_, _)
CommonColor(cards, common_color) ==
  IF cards = <<>> THEN common_color
  ELSE IF is_wild(Head(cards)) THEN CommonColor(Tail(cards), common_color)
  ELSE IF is_wild(common_color) THEN CommonColor(Tail(cards), Head(cards))
  ELSE IF common_color # Head(cards) THEN "mixed"
  ELSE CommonColor(Tail(cards), common_color)

\* The checks without the one that keeps a player from a second parallel route.
can_route_be_claimed_twice_by_player(map, route, parallel_route_index, cards, player_id) ==
  LET fail(e) == [res |-> "Err", err |-> e, cell |-> None] IN
  IF route \notin RouteKeys THEN fail("NoRoute")
  ELSE
    LET parallel_routes == ParallelRoutes(route)
        num_parallel_routes == Len(parallel_routes)
    IN
    IF parallel_route_index >= num_parallel_routes THEN fail("NoParallelRoute")
    ELSE
      LET other == parallel_routes[((parallel_route_index + 1) % num_parallel_routes) + 1]
          cell == parallel_routes[parallel_route_index + 1]
          length == US_MAP[cell[1]].length
          train_color == US_MAP[cell[1]].train_colors[cell[2]]
          common_color == CommonColor(cards, "wild")
      IN
      IF num_parallel_routes > 1 /\ map.claimer[other] # Nil
           /\ map.claimer[other] # Some(player_id)
           /\ ~map.parallel_routes_allowed
      THEN fail("OtherClaimed")
      ELSE IF length # Len(cards) THEN fail("Length")
      ELSE IF map.claimer[cell] # Nil THEN fail("AlreadyClaimed")
      ELSE IF common_color = "mixed" THEN fail("MixedColors")
      ELSE IF is_not_wild(common_color) /\ is_not_wild(train_color)
                /\ train_color # common_color
      THEN fail("WrongColor")
      ELSE [res |-> "Ok", err |-> None, cell |-> cell]

\* The checks without the one that refuses a route that has a claimer.
can_route_be_claimed_again_by_player(map, route, parallel_route_index, cards, player_id) ==
  LET fail(e) == [res |-> "Err", err |-> e, cell |-> None] IN
  IF route \notin RouteKeys THEN fail("NoRoute")
  ELSE
    LET parallel_routes == ParallelRoutes(route)
        num_parallel_routes == Len(parallel_routes)
    IN
    IF parallel_route_index >= num_parallel_routes THEN fail("NoParallelRoute")
    ELSE
      LET other == parallel_routes[((parallel_route_index + 1) % num_parallel_routes) + 1]
          cell == parallel_routes[parallel_route_index + 1]
          length == US_MAP[cell[1]].length
          train_color == US_MAP[cell[1]].train_colors[cell[2]]
          common_color == CommonColor(cards, "wild")
      IN
      IF num_parallel_routes > 1 /\ map.claimer[other] = Some(player_id)
      THEN fail("MoreThanOne")
      ELSE IF num_parallel_routes > 1 /\ map.claimer[other] # Nil
                /\ ~map.parallel_routes_allowed
      THEN fail("OtherClaimed")
      ELSE IF length # Len(cards) THEN fail("Length")
      ELSE IF common_color = "mixed" THEN fail("MixedColors")
      ELSE IF is_not_wild(common_color) /\ is_not_wild(train_color)
                /\ train_color # common_color
      THEN fail("WrongColor")
      ELSE [res |-> "Ok", err |-> None, cell |-> cell]

\* [res, err, cell]: the checks of can_route_be_claimed_by_player, in its order.
can_route_be_claimed_by_player(map, route, parallel_route_index, cards, player_id) ==
  LET fail(e) == [res |-> "Err", err |-> e, cell |-> None] IN
  IF route \notin RouteKeys THEN fail("NoRoute")
  ELSE
    LET parallel_routes == ParallelRoutes(route)
        num_parallel_routes == Len(parallel_routes)
    IN
    IF parallel_route_index >= num_parallel_routes THEN fail("NoParallelRoute")
    ELSE
      LET other == parallel_routes[((parallel_route_index + 1) % num_parallel_routes) + 1]
          cell == parallel_routes[parallel_route_index + 1]
          length == US_MAP[cell[1]].length
          train_color == US_MAP[cell[1]].train_colors[cell[2]]
          common_color == CommonColor(cards, "wild")
      IN
      IF num_parallel_routes > 1 /\ map.claimer[other] = Some(player_id)
      THEN fail("MoreThanOne")
      ELSE IF num_parallel_routes > 1 /\ map.claimer[other] # Nil
                /\ ~map.parallel_routes_allowed
      THEN fail("OtherClaimed")
      ELSE IF length # Len(cards) THEN fail("Length")
      ELSE IF map.claimer[cell] # Nil THEN fail("AlreadyClaimed")
      ELSE IF common_color = "mixed" THEN fail("MixedColors")
      ELSE IF is_not_wild(common_color) /\ is_not_wild(train_color)
                /\ train_color # common_color
      THEN fail("WrongColor")
      ELSE [res |-> "Ok", err |-> None, cell |-> cell]

\* Route::set_claimer (set_if_none) on the route the check returned.
set_claimer(map, cell, player_id) ==
  IF map.claimer[cell] = Nil
  THEN [map EXCEPT !.claimer[cell] = Some(player_id)]
  ELSE map

\* [res, err, map, claimed_route] of Map::claim_route_for_player.
claim_route_for_player(map, route, parallel_route_index, cards, player_id) ==
  LET can == can_route_be_claimed_by_player(
               map, route, parallel_route_index, cards, player_id)
  IN IF can.res = "Err"
     THEN [res |-> "Err", err |-> can.err, map |-> map, claimed_route |-> None]
     ELSE [res |-> "Ok", err |-> None,
           map |-> set_claimer(map, can.cell, player_id),
           claimed_route |-> [route |-> route,
                              parallel_route_index |-> parallel_route_index,
                              length |-> US_MAP[can.cell[1]].length]]

\* The cities, in the order of the BTreeMap range, that extend the search:
\* ends of routes leaving `city` not yet visited, one parallel claimed by the player.
NeighboringCitiesClaimedByPlayer(map, city, player_id, cities_visited) ==
  {key[2] : key \in {k \in RouteKeys :
     /\ k[1] = city
     /\ k[2] \notin cities_visited
     /\ \E i \in DOMAIN ParallelRoutes(k) :
          map.claimer[ParallelRoutes(k)[i]] = Some(player_id)}}

RECURSIVE SortedCities(_)
SortedCities(S) ==
  IF S = {} THEN <<>>
  ELSE LET c == CHOOSE x \in S : \A y \in S : CityOrdinal[x] <= CityOrdinal[y]
       IN <<c>> \o SortedCities(S \ {c})

RECURSIVE FulfilledSearch(_, _, _, _, _)
FulfilledSearch(map, destination_end, player_id, cities_visited, cities_to_visit) ==
  IF cities_to_visit = <<>> THEN FALSE
  ELSE LET city == Head(cities_to_visit) IN
       IF city = destination_end THEN TRUE
       ELSE LET more == NeighboringCitiesClaimedByPlayer(
                          map, city, player_id, cities_visited)
            IN FulfilledSearch(map, destination_end, player_id,
                               cities_visited \cup more,
                               Tail(cities_to_visit) \o SortedCities(more))

\* A search that counts the start of the destination as visited.
has_player_fulfilled_destination_from_visited_start(map, destination, player_id) ==
  LET first == NeighboringCitiesClaimedByPlayer(map, destination[1], player_id, {})
  IN FulfilledSearch(map, destination[2], player_id,
                     first \cup {destination[1]},
                     SortedCities(first \ {destination[1]}))

has_player_fulfilled_destination(map, destination, player_id) ==
  LET first == NeighboringCitiesClaimedByPlayer(map, destination[1], player_id, {})
  IN FulfilledSearch(map, destination[2], player_id, first, SortedCities(first))

Max(a, b) == IF a >= b THEN a ELSE b

\* all_routes[city]: the (end, length) entries pushed for the claimed routes.
AllRoutesFrom(claimed_routes, city) ==
  LET RECURSIVE Build(_)
      Build(i) ==
        IF i > Len(claimed_routes) THEN <<>>
        ELSE LET cr == claimed_routes[i]
                 here == IF cr.route[1] = city THEN <<<<cr.route[2], cr.length>>>>
                         ELSE <<>>
                 back == IF cr.route[2] = city THEN <<<<cr.route[1], cr.length>>>>
                         ELSE <<>>
             IN here \o back \o Build(i + 1)
  IN Build(1)

RECURSIVE get_longest_route_from_city(_, _, _, _)
get_longest_route_from_city(start, claimed_routes, routes_visited, current_length) ==
  LET edges == AllRoutesFrom(claimed_routes, start)
      RECURSIVE Loop(_, _)
      Loop(i, longest) ==
        IF i > Len(edges) THEN longest
        ELSE LET end == edges[i][1]
                 length == edges[i][2]
             IN IF <<start, end>> \in routes_visited THEN Loop(i + 1, longest)
                ELSE Loop(i + 1,
                          Max(longest,
                              get_longest_route_from_city(
                                end, claimed_routes,
                                routes_visited \cup {<<start, end>>, <<end, start>>},
                                current_length + length)))
  IN Loop(1, current_length)

get_longest_route(claimed_routes) ==
  LET cities_to_visit ==
        UNION {{claimed_routes[i].route[1], claimed_routes[i].route[2]} :
                 i \in DOMAIN claimed_routes}
      RECURSIVE MaxOver(_)
      MaxOver(S) ==
        IF S = {} THEN 0
        ELSE LET c == CHOOSE x \in S : TRUE
             IN Max(get_longest_route_from_city(c, claimed_routes, {}, 0),
                    MaxOver(S \ {c}))
  IN MaxOver(cities_to_visit)

\* The table read one place too far.
calculate_points_for_longer_route(length) ==
  CASE length = 1 -> 2 [] length = 2 -> 4 [] length = 3 -> 7
    [] length = 4 -> 10 [] length = 5 -> 15 [] length = 6 -> 15

calculate_points_for_claimed_route(length) ==
  CASE length = 1 -> 1 [] length = 2 -> 2 [] length = 3 -> 4
    [] length = 4 -> 7 [] length = 5 -> 10 [] length = 6 -> 15

(***************************************************************************)
(* card.rs: the destination cards, CardDealer::new and initial_draw.       *)
(***************************************************************************)
\* generate_destination_cards: the head of its list, in the order of the source.
DestinationCards ==
  << [destination |-> <<"Boston", "Miami">>, points |-> 12],
     [destination |-> <<"Calgary", "Phoenix">>, points |-> 13],
     [destination |-> <<"Calgary", "SaltLakeCity">>, points |-> 7],
     [destination |-> <<"Chicago", "NewOrleans">>, points |-> 7],
     [destination |-> <<"Chicago", "SantaFe">>, points |-> 9],
     [destination |-> <<"Dallas", "NewYork">>, points |-> 11],
     [destination |-> <<"Denver", "ElPaso">>, points |-> 4],
     [destination |-> <<"Denver", "Pittsburgh">>, points |-> 11],
     [destination |-> <<"Duluth", "ElPaso">>, points |-> 10],
     [destination |-> <<"Duluth", "Houston">>, points |-> 8],
     [destination |-> <<"Helena", "LosAngeles">>, points |-> 8],
     [destination |-> <<"KansasCity", "Houston">>, points |-> 5] >>

\* The order of the shuffled destination deck the model starts from: the
\* order of the list.
DestinationDeckOrders == { [i \in 1..NumDestinationCards |-> i] }

\* The cards CardDealer::new starts from, as a multiset.
AllTrainCards(num_wild_cards, num_non_wild_cards) ==
  [c \in TrainColor |->
     IF c \notin DeckColors THEN 0
     ELSE IF is_wild(c) THEN num_wild_cards ELSE num_non_wild_cards]

\* The outcome of all_train_cards.shuffle the model starts from: the wild
\* cards lie at the front of the Vec, which becomes the open deck, and the
\* closed deck holds the rest.  [cards, deck] as PopUpTo returns them.
TrainCardShuffles ==
  LET all_train_cards == AllTrainCards(NUM_WILD_CARDS, NUM_NON_WILD_CARDS)
      front == [i \in 1..NUM_OPEN_TRAIN_CARDS |->
                  IF i <= NUM_WILD_CARDS THEN "wild" ELSE "black"]
  IN {r \in PopUpTo(all_train_cards, NUM_OPEN_TRAIN_CARDS) : r.cards = front}

\* CardDealer::new: the dealers it can return for the given shuffles.
CardDealersFrom(shuffles) ==
  LET dealt ==
        {[open_train_card_deck |-> r.cards,
          close_train_card_deck |-> r.deck,
          discarded_train_card_deck |-> EmptyDeck,
          destination_card_deck |-> order] :
            r \in shuffles, order \in DestinationDeckOrders}
  IN UNION {{o.d : o \in maybe_reshuffle_open_train_card_deck(d)} : d \in dealt}

CardDealerNew == CardDealersFrom(TrainCardShuffles)

\* [res, train_cards, destination_cards, d]; res = "Panic" when an unwrap fails.
RECURSIVE DrawInitialTrainCards(_, _)
DrawInitialTrainCards(d, n) ==
  IF n = 0 THEN {[res |-> "Ok", cards |-> <<>>, d |-> d]}
  ELSE UNION {
         IF r.res = "Err" THEN {[res |-> "Panic", cards |-> <<>>, d |-> d]}
         ELSE {[res |-> s.res, cards |-> <<r.card>> \o s.cards, d |-> s.d] :
                 s \in DrawInitialTrainCards(r.d, n - 1)} :
         r \in draw_from_close_train_card_deck(d)}

initial_draw(d) ==
  UNION {
    IF t.res = "Panic"
    THEN {[res |-> "Panic", train_cards |-> <<>>, destination_cards |-> <<>>, d |-> d]}
    ELSE LET dest == draw_from_destination_card_deck(t.d) IN
         IF dest.res = "Err" \/ Len(dest.cards) # NUM_DRAWN_DESTINATION_CARDS
         THEN {[res |-> "Panic", train_cards |-> <<>>,
                destination_cards |-> <<>>, d |-> d]}
         ELSE {[res |-> "Ok", train_cards |-> t.cards,
                destination_cards |-> dest.cards, d |-> dest.d]} :
    t \in DrawInitialTrainCards(d, NUM_DRAWN_INITIAL_TRAIN_CARDS)}

(***************************************************************************)
(* player.rs: Player.  The public and private state are one record.        *)
(***************************************************************************)
PlayerColor ==
  <<"black", "blue", "green", "orange", "pink", "red", "yellow", "white">>

PlayerNew(id, color, name) ==
  [id |-> id, name |-> name, color |-> color,
   is_ready |-> FALSE, is_done_playing |-> FALSE,
   cars |-> NUM_OF_CARS, points |-> 0,
   turn_actions |-> [turn |-> Nil, actions |-> <<>>],
   claimed_routes |-> <<>>, num_train_cards |-> 0,
   train_cards |-> EmptyDeck,
   pending_destination_cards |-> <<>>,
   selected_destination_cards |-> <<>>,
   has_longest_route |-> Nil]

\* Outcomes [res, player, d] of Player::initialize_when_game_starts.
initialize_when_game_starts(player, d) ==
  {IF r.res = "Panic" THEN [res |-> "Panic", player |-> player, d |-> d]
   ELSE [res |-> "Ok",
         player |-> [player EXCEPT
           !.num_train_cards = @ + Len(r.train_cards),
           !.train_cards = DeckUnion(@, DeckOfSeq(r.train_cards)),
           !.pending_destination_cards = @ \o r.destination_cards],
         d |-> r.d] :
     r \in initial_draw(d)}

replace_turn_action(player, turn, action) ==
  [player EXCEPT !.turn_actions = [turn |-> Some(turn), actions |-> <<action>>]]

append_turn_action(player, action) ==
  [player EXCEPT !.turn_actions.actions = Append(@, action)]

\* The handlers below return the set of outcomes [res, over, player, d, map]:
\* res is "Ok", "Err" or "Panic", and over is the boolean of Ok(over).
PlayerFailed(res, player, d, map) ==
  [res |-> res, over |-> FALSE, player |-> player, d |-> d, map |-> map]

NumWild(cards) == Cardinality({i \in DOMAIN cards : is_wild(cards[i])})

\* The first colour that is not wild, and the number of cards that are not wild.
NonWildCards(cards) ==
  LET idx == {i \in DOMAIN cards : is_not_wild(cards[i])}
  IN IF idx = {} THEN [color |-> "wild", num |-> 0]
     ELSE [color |-> cards[CHOOSE i \in idx : \A j \in idx : i <= j],
           num |-> Cardinality(idx)]

PlayerClaimRoute(player, route, parallel_route_index, cards, turn, map, d) ==
  LET num_wild_cards == NumWild(cards)
      non_wild_cards == NonWildCards(cards)
  IN
  IF player.turn_actions.turn = Some(turn) THEN {PlayerFailed("Err", player, d, map)}
  ELSE IF Len(cards) > player.cars THEN {PlayerFailed("Err", player, d, map)}
  ELSE IF num_wild_cards > 0 /\ player.train_cards["wild"] < num_wild_cards
  THEN {PlayerFailed("Err", player, d, map)}
  ELSE IF non_wild_cards.num > 0
            /\ player.train_cards[non_wild_cards.color] < non_wild_cards.num
  THEN {PlayerFailed("Err", player, d, map)}
  ELSE
    LET claim == claim_route_for_player(
                   map, route, parallel_route_index, cards, player.id)
    IN
    IF claim.res = "Err" THEN {PlayerFailed("Err", player, d, claim.map)}
    ELSE
      LET p1 == replace_turn_action(player, turn, "ClaimedRoute")
          p2 == [p1 EXCEPT
                   !.train_cards["wild"] = @ - num_wild_cards,
                   !.num_train_cards = @ - num_wild_cards]
          p3 == IF non_wild_cards.num = 0 THEN p2
                ELSE [p2 EXCEPT
                        !.train_cards[non_wild_cards.color] = @ - non_wild_cards.num,
                        !.num_train_cards = @ - non_wild_cards.num]
          p4 == [p3 EXCEPT
                   !.points = @ + calculate_points_for_claimed_route(
                                    claim.claimed_route.length),
                   !.cars = @ - claim.claimed_route.length,
                   !.claimed_routes = Append(@, claim.claimed_route)]
      IN {[res |-> "Ok", over |-> TRUE, player |-> p4,
           d |-> discard_train_cards(d, cards), map |-> claim.map]}

\* A player that may draw a train card after destination cards.
TurnSecondDrawAfterAnything(player, turn) ==
  IF player.turn_actions.turn # Some(turn) THEN "first" ELSE "second"

\* "second", "first", or "Err" when destination cards were drawn this turn.
TurnSecondDraw(player, turn) ==
  IF player.turn_actions.turn # Some(turn) THEN "first"
  ELSE IF player.turn_actions.actions[1] = "DrewDestinationCards" THEN "Err"
  ELSE "second"

AddTrainCard(player, card) ==
  [player EXCEPT !.train_cards[card] = @ + 1, !.num_train_cards = @ + 1]

PlayerDrawOpenTrainCard(player, card_index, turn, d, map) ==
  LET second == TurnSecondDraw(player, turn) IN
  IF second = "Err" THEN {PlayerFailed("Err", player, d, map)}
  ELSE
    {IF r.res = "Err" THEN PlayerFailed("Err", player, r.d, map)
     ELSE LET p1 == AddTrainCard(player, r.card) IN
          IF is_wild(r.card)
          THEN [res |-> "Ok", over |-> TRUE,
                player |-> replace_turn_action(p1, turn, "DrewOpenWildTrainCard"),
                d |-> r.d, map |-> map]
          ELSE IF second = "second"
          THEN [res |-> "Ok", over |-> TRUE,
                player |-> append_turn_action(p1, "DrewOpenNonWildTrainCard"),
                d |-> r.d, map |-> map]
          ELSE [res |-> "Ok", over |-> ~can_player_draw_again_this_turn(r.d),
                player |-> replace_turn_action(p1, turn, "DrewOpenNonWildTrainCard"),
                d |-> r.d, map |-> map] :
       r \in draw_from_open_train_card_deck(d, card_index, second = "second")}

PlayerDrawCloseTrainCard(player, turn, d, map) ==
  LET second == TurnSecondDraw(player, turn) IN
  IF second = "Err" THEN {PlayerFailed("Err", player, d, map)}
  ELSE
    {IF r.res = "Err" THEN PlayerFailed("Err", player, r.d, map)
     ELSE LET p1 == AddTrainCard(player, r.card) IN
          IF second = "second"
          THEN [res |-> "Ok", over |-> TRUE,
                player |-> append_turn_action(p1, "DrewCloseTrainCard"),
                d |-> r.d, map |-> map]
          ELSE [res |-> "Ok", over |-> ~can_player_draw_again_this_turn(r.d),
                player |-> replace_turn_action(p1, turn, "DrewCloseTrainCard"),
                d |-> r.d, map |-> map] :
       r \in draw_from_close_train_card_deck(d)}

\* A player that draws destination cards whatever it did this turn.
PlayerDrawDestinationCardsAgain(player, turn, d, map) ==
  LET r == draw_from_destination_card_deck(d) IN
  IF r.res = "Err" THEN {PlayerFailed("Err", player, r.d, map)}
  ELSE {[res |-> "Ok", over |-> FALSE,
         player |-> replace_turn_action(
                      [player EXCEPT !.pending_destination_cards = r.cards],
                      turn, "DrewDestinationCards"),
         d |-> r.d, map |-> map]}

PlayerDrawDestinationCards(player, turn, d, map) ==
  IF player.turn_actions.turn = Some(turn) THEN {PlayerFailed("Err", player, d, map)}
  ELSE
    LET r == draw_from_destination_card_deck(d) IN
    IF r.res = "Err" THEN {PlayerFailed("Err", player, r.d, map)}
    ELSE {[res |-> "Ok", over |-> FALSE,
           player |-> replace_turn_action(
                        [player EXCEPT !.pending_destination_cards = r.cards],
                        turn, "DrewDestinationCards"),
           d |-> r.d, map |-> map]}

\* The pending cards with decision `keep`, walking the indices backwards.
RECURSIVE PendingBackwards(_, _, _, _)
PendingBackwards(pending, decisions, keep, i) ==
  IF i = 0 THEN <<>>
  ELSE (IF decisions[i] = keep THEN <<pending[i]>> ELSE <<>>)
         \o PendingBackwards(pending, decisions, keep, i - 1)

\* A player that may select nothing at all.
MinToSelectNothing(turn) == 0

\* The minimum of the match on (last turn, turn): two on the initial draw.
MinToSelect(turn) == IF turn = Nil THEN 2 ELSE 1

\* turn is the manager's Option<usize>: Nil during the initial selection.
PlayerSelectDestinationCards(player, destination_cards_decisions, turn, d, map) ==
  LET last_turn == player.turn_actions.turn
      num_selected == Cardinality({i \in DOMAIN destination_cards_decisions :
                                     destination_cards_decisions[i]})
      min_to_select == MinToSelect(turn)
      n == Len(destination_cards_decisions)
  IN
  IF n # Len(player.pending_destination_cards)
  THEN {PlayerFailed("Err", player, d, map)}
  ELSE IF last_turn # Nil /\ turn # Nil /\ last_turn # turn
  THEN {PlayerFailed("Err", player, d, map)}
  ELSE IF last_turn # Nil /\ turn # Nil
            /\ player.turn_actions.actions[1] # "DrewDestinationCards"
  THEN {PlayerFailed("Err", player, d, map)}
  ELSE IF (last_turn = Nil) # (turn = Nil)
  THEN {PlayerFailed("Panic", player, d, map)}     \* unreachable!()
  ELSE IF num_selected < min_to_select
  THEN {PlayerFailed("Err", player, d, map)}
  ELSE
    LET p1 == append_turn_action(player, "SelectedDestinationCards")
        selected == PendingBackwards(player.pending_destination_cards,
                                     destination_cards_decisions, TRUE, n)
        discarded == PendingBackwards(player.pending_destination_cards,
                                      destination_cards_decisions, FALSE, n)
    IN {[res |-> "Ok", over |-> TRUE,
         player |-> [p1 EXCEPT
                       !.pending_destination_cards = <<>>,
                       !.selected_destination_cards = @ \o selected],
         d |-> discard_destination_cards(d, discarded), map |-> map]}

\* Player::finalize_game: destination cards are scored and the length of the
\* player's longest route is returned.  [player, longest_route]
RECURSIVE DestinationPoints(_, _, _)
DestinationPoints(cards, map, player_id) ==
  IF cards = <<>> THEN 0
  ELSE LET card == DestinationCards[Head(cards)]
       IN (IF has_player_fulfilled_destination(map, card.destination, player_id)
           THEN card.points ELSE 0 - card.points)
          + DestinationPoints(Tail(cards), map, player_id)

\* PublicPlayerState.points is a u8: what is stored is the sum modulo 2^8.
finalize_game(player, map) ==
  [player |-> [player EXCEPT
                 !.points = (@ + DestinationPoints(
                                   player.selected_destination_cards, map, player.id))
                              % POINTS_MODULUS],
   longest_route |-> get_longest_route(player.claimed_routes)]

set_has_longest_route(player, has_longest_route) ==
  [player EXCEPT !.has_longest_route = Some(has_longest_route)]

(***************************************************************************)
(* manager.rs: Manager.  A manager is the record of its fields; a handler  *)
(* returns the set of outcomes [res, m].  res is "Ok", "Panic" (an index   *)
(* out of bounds, an unwrap of None, unreachable!()), or the kind of the   *)
(* error returned: "NotInLobby", "AlreadyUsed", "NotStarted",              *)
(* "NotYourTurn", "None" for the None of add_player, and "Err" for the     *)
(* errors of the player, the map and the dealer.  Indices into `players`   *)
(* count from 0, as in the source.                                         *)
(***************************************************************************)
ErrorKinds ==
  {"Err", "None", "NotInLobby", "AlreadyUsed", "NotStarted", "NotYourTurn"}

IsErr(res) == res \in ErrorKinds

ManagerNew ==
  [phase |-> "InLobby", turn |-> Nil, map |-> Nil, card_dealer |-> Nil,
   players |-> <<>>, players_position |-> <<>>,
   num_players_selected_initial_destination_cards |-> 0,
   num_players_done_playing |-> 0]

num_players(m) == Len(m.players)

PlayerIds(m) == {m.players[i].id : i \in DOMAIN m.players}

get_player_index(m, player_id) ==
  IF player_id \in DOMAIN m.players_position
  THEN Some(m.players_position[player_id]) ELSE Nil

generate_default_player_color(m) ==
  LET used_player_colors == {m.players[i].color : i \in DOMAIN m.players}
      free == {k \in DOMAIN PlayerColor : PlayerColor[k] \notin used_player_colors}
  IN PlayerColor[CHOOSE k \in free : \A j \in free : k <= j]

\* format!("Player {:01$}", player_id, id_length), for ids of one digit.
Digit == <<"0", "1", "2", "3", "4", "5", "6", "7", "8", "9">>

RECURSIVE Zeros(_)
Zeros(n) == IF n <= 0 THEN "" ELSE "0" \o Zeros(n - 1)

FormatPlayerName(player_id, id_length) ==
  "Player " \o Zeros(id_length - 1) \o Digit[player_id + 1]

\* A manager that never pads the id of a default name.
generate_default_player_name_unpadded(m, player_id) ==
  FormatPlayerName(player_id, 1)

generate_default_player_name(m, player_id) ==
  LET used_player_names == {m.players[i].name : i \in DOMAIN m.players}
      free == {l \in 1..MAX_PLAYERS :
                 FormatPlayerName(player_id, l) \notin used_player_names}
  IN FormatPlayerName(player_id, CHOOSE l \in free : \A j \in free : l <= j)

\* add_player returns an Option: res is "Ok" for Some(id), "None" for None.
add_player(m) ==
  IF m.phase # "InLobby" \/ num_players(m) = MAX_PLAYERS
  THEN {[res |-> "None", m |-> m]}
  ELSE LET player_id == num_players(m)
       IN {[res |-> "Ok",
            m |-> [m EXCEPT !.players =
                     Append(@, PlayerNew(player_id,
                                         generate_default_player_color(m),
                                         generate_default_player_name(m, player_id)))]]}

\* A manager that renames players in every phase.
change_player_name_any_phase(m, player_id, new_name) ==
  IF \E i \in DOMAIN m.players : m.players[i].name = new_name
  THEN {[res |-> "AlreadyUsed", m |-> m]}
  ELSE IF player_id >= num_players(m) THEN {[res |-> "Panic", m |-> m]}
  ELSE {[res |-> "Ok", m |-> [m EXCEPT !.players[player_id + 1].name = new_name]]}

change_player_name(m, player_id, new_name) ==
  IF m.phase # "InLobby" THEN {[res |-> "NotInLobby", m |-> m]}
  ELSE IF \E i \in DOMAIN m.players : m.players[i].name = new_name
  THEN {[res |-> "AlreadyUsed", m |-> m]}
  ELSE IF player_id >= num_players(m) THEN {[res |-> "Panic", m |-> m]}
  ELSE {[res |-> "Ok", m |-> [m EXCEPT !.players[player_id + 1].name = new_name]]}

\* A manager that recolours players in every phase.
change_player_color_any_phase(m, player_id, new_color) ==
  IF \E i \in DOMAIN m.players : m.players[i].color = new_color
  THEN {[res |-> "AlreadyUsed", m |-> m]}
  ELSE IF player_id >= num_players(m) THEN {[res |-> "Panic", m |-> m]}
  ELSE {[res |-> "Ok", m |-> [m EXCEPT !.players[player_id + 1].color = new_color]]}

change_player_color(m, player_id, new_color) ==
  IF m.phase # "InLobby" THEN {[res |-> "NotInLobby", m |-> m]}
  ELSE IF \E i \in DOMAIN m.players : m.players[i].color = new_color
  THEN {[res |-> "AlreadyUsed", m |-> m]}
  ELSE IF player_id >= num_players(m) THEN {[res |-> "Panic", m |-> m]}
  ELSE {[res |-> "Ok", m |-> [m EXCEPT !.players[player_id + 1].color = new_color]]}

\* The orders players.shuffle can leave the players in.
Shuffles(players) ==
  LET n == Len(players)
      perms == {f \in [1..n -> 1..n] : \A i, j \in 1..n : f[i] = f[j] => i = j}
  IN {[i \in 1..n |-> players[f[i]]] : f \in perms}

\* The loop of start_game over the shuffled players, from index i (from 1) on:
\* outcomes [res, players, d].
RECURSIVE InitializePlayers(_, _, _)
InitializePlayers(players, d, i) ==
  IF i > Len(players) THEN {[res |-> "Ok", players |-> players, d |-> d]}
  ELSE UNION {
         IF r.res = "Panic" THEN {[res |-> "Panic", players |-> players, d |-> d]}
         ELSE InitializePlayers([players EXCEPT ![i] = r.player], r.d, i + 1) :
         r \in initialize_when_game_starts(players[i], d)}

\* A manager that records the positions the players had before the shuffle.
start_game_with_lobby_positions(m) ==
  LET new_map == MapNew(num_players(m)) IN
  IF new_map.res = "Err" THEN {[res |-> "Err", m |-> m]}
  ELSE UNION {
         {IF r.res = "Panic" THEN [res |-> "Panic", m |-> m]
          ELSE [res |-> "Ok",
                m |-> [m EXCEPT
                         !.phase = "Starting",
                         !.players = r.players,
                         !.players_position =
                           [id \in PlayerIds(m) |->
                              (CHOOSE i \in DOMAIN m.players : m.players[i].id = id) - 1],
                         !.map = Some(new_map.map),
                         !.card_dealer = Some(r.d)]] :
            r \in InitializePlayers(shuffled, card_dealer, 1)} :
         shuffled \in Shuffles(m.players), card_dealer \in CardDealerNew}

start_game(m) ==
  LET new_map == MapNew(num_players(m)) IN
  IF new_map.res = "Err" THEN {[res |-> "Err", m |-> m]}
  ELSE UNION {
         {IF r.res = "Panic" THEN [res |-> "Panic", m |-> m]
          ELSE [res |-> "Ok",
                m |-> [m EXCEPT
                         !.phase = "Starting",
                         !.players = r.players,
                         !.players_position =
                           [id \in PlayerIds(m) |->
                              (CHOOSE i \in DOMAIN r.players : r.players[i].id = id) - 1],
                         !.map = Some(new_map.map),
                         !.card_dealer = Some(r.d)]] :
            r \in InitializePlayers(shuffled, card_dealer, 1)} :
         shuffled \in Shuffles(m.players), card_dealer \in CardDealerNew}

\* A manager that starts the game as soon as one player is ready.
set_ready_any(m, player_id, is_ready) ==
  IF m.phase # "InLobby" THEN {[res |-> "NotInLobby", m |-> m]}
  ELSE IF player_id >= num_players(m) THEN {[res |-> "Panic", m |-> m]}
  ELSE LET m1 == [m EXCEPT !.players[player_id + 1].is_ready = is_ready] IN
       IF num_players(m1) >= MIN_PLAYERS
            /\ \E i \in DOMAIN m1.players : m1.players[i].is_ready
       THEN start_game(m1)
       ELSE {[res |-> "Ok", m |-> m1]}

set_ready(m, player_id, is_ready) ==
  IF m.phase # "InLobby" THEN {[res |-> "NotInLobby", m |-> m]}
  ELSE IF player_id >= num_players(m) THEN {[res |-> "Panic", m |-> m]}
  ELSE LET m1 == [m EXCEPT !.players[player_id + 1].is_ready = is_ready] IN
       IF num_players(m1) >= MIN_PLAYERS
            /\ \A i \in DOMAIN m1.players : m1.players[i].is_ready
       THEN start_game(m1)
       ELSE {[res |-> "Ok", m |-> m1]}

has_turn_based_game_started(m) ==
  IF m.phase = "Playing" \/ m.phase = "LastTurn" THEN "Ok" ELSE "Err"

has_game_started(m) ==
  IF m.phase = "Starting" \/ has_turn_based_game_started(m) = "Ok"
  THEN "Ok" ELSE "Err"

\* A manager for which it is always the caller's turn.
is_player_turn_always(m, player_index) == "Ok"

is_player_turn(m, player_index) ==
  IF m.turn[1] % num_players(m) = player_index THEN "Ok" ELSE "Err"

\* A manager whose turn never advances.
increment_turn_stuck(m) == m

increment_turn(m) == [m EXCEPT !.turn = Some(@[1] + 1)]

MaxOfSeq(q) ==
  CHOOSE x \in {q[i] : i \in DOMAIN q} : \A i \in DOMAIN q : q[i] <= x

\* A manager that grants the longest route to every player.
maybe_player_and_game_done_all_longest(m, player_index) ==
  IF m.phase # "LastTurn" THEN m
  ELSE
    LET m1 == [m EXCEPT !.num_players_done_playing = @ + 1,
                        !.players[player_index + 1].is_done_playing = TRUE]
    IN IF m1.num_players_done_playing # num_players(m1) THEN m1
       ELSE [m1 EXCEPT
               !.phase = "Done",
               !.players = [i \in DOMAIN m1.players |->
                              set_has_longest_route(
                                finalize_game(m1.players[i], m1.map[1]).player,
                                TRUE)]]

\* A manager that counts the last turns without marking the players.
maybe_player_and_game_done_unmarked(m, player_index) ==
  IF m.phase # "LastTurn" THEN m
  ELSE LET m1 == [m EXCEPT !.num_players_done_playing = @ + 1]
       IN IF m1.num_players_done_playing # num_players(m1) THEN m1
          ELSE [m1 EXCEPT !.phase = "Done"]

\* A manager that resumes play after a player's last turn.
maybe_player_and_game_done_resuming(m, player_index) ==
  IF m.phase # "LastTurn" THEN m
  ELSE [m EXCEPT !.phase = "Playing",
                 !.num_players_done_playing = @ + 1,
                 !.players[player_index + 1].is_done_playing = TRUE]

maybe_player_and_game_done(m, player_index) ==
  IF m.phase # "LastTurn" THEN m
  ELSE
    LET m1 == [m EXCEPT !.num_players_done_playing = @ + 1,
                        !.players[player_index + 1].is_done_playing = TRUE]
    IN
    IF m1.num_players_done_playing # num_players(m1) THEN m1
    ELSE
      LET finalized == [i \in DOMAIN m1.players |->
                          finalize_game(m1.players[i], m1.map[1])]
          all_longest_routes == [i \in DOMAIN finalized |-> finalized[i].longest_route]
          max_longest_route == MaxOfSeq(all_longest_routes)
      IN [m1 EXCEPT
            !.phase = "Done",
            !.players = [i \in DOMAIN finalized |->
                           set_has_longest_route(
                             finalized[i].player,
                             all_longest_routes[i] = max_longest_route)]]

\* The manager with the player at player_index, the dealer and the map of `o`.
WithOutcome(m, player_index, o) ==
  [m EXCEPT !.players[player_index + 1] = o.player,
            !.card_dealer = Some(o.d),
            !.map = Some(o.map)]

select_destination_cards(m, player_id, destination_cards_decisions) ==
  IF has_game_started(m) = "Err" THEN {[res |-> "NotStarted", m |-> m]}
  ELSE IF get_player_index(m, player_id) = Nil THEN {[res |-> "Panic", m |-> m]}
  ELSE
    LET player_index == get_player_index(m, player_id)[1] IN
    IF has_turn_based_game_started(m) = "Ok" /\ is_player_turn(m, player_index) = "Err"
    THEN {[res |-> "NotYourTurn", m |-> m]}
    ELSE
      {IF o.res # "Ok"
       THEN [res |-> o.res, m |-> WithOutcome(m, player_index, o)]
       ELSE
         LET m1 == WithOutcome(m, player_index, o) IN
         IF m1.phase = "Starting"
         THEN LET m2 == [m1 EXCEPT
                           !.num_players_selected_initial_destination_cards = @ + 1]
              IN [res |-> "Ok",
                  m |-> IF m2.num_players_selected_initial_destination_cards
                             = num_players(m2)
                        THEN [m2 EXCEPT !.phase = "Playing", !.turn = Some(0)]
                        ELSE m2]
         ELSE [res |-> "Ok",
               m |-> maybe_player_and_game_done(increment_turn(m1), player_index)] :
         o \in PlayerSelectDestinationCards(
                 m.players[player_index + 1], destination_cards_decisions,
                 m.turn, m.card_dealer[1], m.map[1])}

draw_destination_cards(m, player_id) ==
  IF has_turn_based_game_started(m) = "Err" THEN {[res |-> "NotStarted", m |-> m]}
  ELSE IF get_player_index(m, player_id) = Nil THEN {[res |-> "Panic", m |-> m]}
  ELSE
    LET player_index == get_player_index(m, player_id)[1] IN
    IF is_player_turn(m, player_index) = "Err" THEN {[res |-> "NotYourTurn", m |-> m]}
    ELSE
      {[res |-> o.res, m |-> WithOutcome(m, player_index, o)] :
         o \in PlayerDrawDestinationCards(
                 m.players[player_index + 1], m.turn[1],
                 m.card_dealer[1], m.map[1])}

(***************************************************************************)
(* Manager::draw_open_train_card, draw_close_train_card and claim_route.   *)
(* They gate the action as draw_destination_cards does and, when the       *)
(* player's handler reports the turn over, end the turn: the turn is       *)
(* incremented; then, if the phase is still Playing and the acting player  *)
(* has fewer than LAST_TURN_CARS cars, the phase becomes LastTurn with     *)
(* num_players_done_playing = 0; otherwise maybe_player_and_game_done.     *)
(***************************************************************************)
\* A manager that leaves the turn with the player whose action is over.
end_turn_staying(m, player_index) == m

\* A manager that ends a turn without looking at the cars left.
end_turn_ignoring_cars(m, player_index) ==
  maybe_player_and_game_done(increment_turn(m), player_index)

end_turn(m, player_index) ==
  LET m1 == increment_turn(m) IN
  IF m1.phase = "Playing" /\ m1.players[player_index + 1].cars < LAST_TURN_CARS
  THEN [m1 EXCEPT !.phase = "LastTurn", !.num_players_done_playing = 0]
  ELSE maybe_player_and_game_done(m1, player_index)

\* The gate every turn action passes before the player acts.
TurnRejection(m, player_id) ==
  IF has_turn_based_game_started(m) = "Err" THEN "NotStarted"
  ELSE IF get_player_index(m, player_id) = Nil THEN "Panic"
  ELSE IF is_player_turn(m, get_player_index(m, player_id)[1]) = "Err"
  THEN "NotYourTurn"
  ELSE "Ok"

\* The Manager after the player's outcomes: what the player's handler left of
\* the player, the dealer and the map stays; a successful action ends the turn
\* when it is over.
TurnOutcomes(m, player_index, outcomes) ==
  {IF o.res # "Ok" THEN [res |-> o.res, m |-> WithOutcome(m, player_index, o)]
   ELSE LET m1 == WithOutcome(m, player_index, o)
        IN [res |-> "Ok",
            m |-> IF o.over THEN end_turn(m1, player_index) ELSE m1] :
     o \in outcomes}

draw_open_train_card(m, player_id, card_index) ==
  IF TurnRejection(m, player_id) # "Ok"
  THEN {[res |-> TurnRejection(m, player_id), m |-> m]}
  ELSE LET player_index == get_player_index(m, player_id)[1]
       IN TurnOutcomes(m, player_index,
            PlayerDrawOpenTrainCard(m.players[player_index + 1], card_index,
                                    m.turn[1], m.card_dealer[1], m.map[1]))

draw_close_train_card(m, player_id) ==
  IF TurnRejection(m, player_id) # "Ok"
  THEN {[res |-> TurnRejection(m, player_id), m |-> m]}
  ELSE LET player_index == get_player_index(m, player_id)[1]
       IN TurnOutcomes(m, player_index,
            PlayerDrawCloseTrainCard(m.players[player_index + 1],
                                     m.turn[1], m.card_dealer[1], m.map[1]))

claim_route(m, player_id, route, parallel_route_index, cards) ==
  IF TurnRejection(m, player_id) # "Ok"
  THEN {[res |-> TurnRejection(m, player_id), m |-> m]}
  ELSE LET player_index == get_player_index(m, player_id)[1]
       IN TurnOutcomes(m, player_index,
            PlayerClaimRoute(m.players[player_index + 1], route,
                             parallel_route_index, cards, m.turn[1], m.map[1],
                             m.card_dealer[1]))

(***************************************************************************)
(* Manager::get_state and what it is built from.  A player of the model is *)
(* one record: its private sub-state is the three fields of                *)
(* PrivatePlayerState, its public sub-state all the others.                *)
(***************************************************************************)
PrivateFields ==
  {"train_cards", "pending_destination_cards", "selected_destination_cards"}

PublicPlayerState(player) ==
  [f \in (DOMAIN player) \ PrivateFields |-> player[f]]

PrivatePlayerState(player) == [f \in PrivateFields |-> player[f]]

\* A player that shows its private state to every viewer.
get_player_state_to_anyone(player, player_id) ==
  [public_player_state |-> PublicPlayerState(player),
   private_player_state |-> Some(PrivatePlayerState(player))]

get_player_state(player, player_id) ==
  [public_player_state |-> PublicPlayerState(player),
   private_player_state |->
     IF player.id = player_id THEN Some(PrivatePlayerState(player)) ELSE Nil]

\* CardDealer::get_state.
CardDealerState(d) ==
  [open_train_card_deck |-> d.open_train_card_deck,
   close_train_card_deck_size |-> DeckSize(d.close_train_card_deck),
   discarded_train_card_deck_size |-> DeckSize(d.discarded_train_card_deck),
   destination_card_deck_size |-> Len(d.destination_card_deck)]

get_state(m, player_id) ==
  [phase |-> m.phase,
   turn |-> m.turn,
   card_dealer_state |->
     IF m.card_dealer = Nil THEN Nil ELSE Some(CardDealerState(m.card_dealer[1])),
   players_state |->
     [i \in DOMAIN m.players |-> get_player_state(m.players[i], player_id)]]

(***************************************************************************)
(* The state machine: one Manager (the fields of the struct), and the      *)
(* result of the last call.                                                *)
(***************************************************************************)
\* The guard of the DashMap on the game's entry, as no request holds it.
Unlocked == [writer |-> Nil, readers |-> {}]

\* The requests in flight against one game, each served by its own thread.
Requests == 1..NumRequests

\* THREAD_POOL with one thread, unlocked, no job queued and no call made.
\* A call is at `pc` in get_longest_route; a thread holds the job it runs.
IdleCall ==
  [pc |-> "idle", claimed_routes |-> <<>>, cities_to_visit |-> {},
   received_from |-> {}, num_received |-> 0, longest_route |-> 0]

PoolIdle ==
  [num_threads |-> 1, holder |-> Nil, queue |-> <<>>,
   workers |-> [w \in 1..NumWorkers |-> Nil],
   calls |-> [c \in 1..NumCalls |-> IdleCall]]

IdleRequest ==
  [pc |-> "idle", kind |-> "none", player_id |-> 0, held |-> Nil, seen |-> Nil]

NoRequests == [r \in Requests |-> IdleRequest]

VARIABLES phase, turn, map, card_dealer, players, players_position,
          num_players_selected_initial_destination_cards,
          num_players_done_playing, result,
          extracted,  \* the train cards callers took off a dealer driven on its own
          shard,      \* who holds the entry of the game in the DashMap
          requests,   \* the requests of the web server against the game
          pool        \* THREAD_POOL and the calls of get_longest_route on it

gameVars == <<phase, turn, map, card_dealer, players, players_position,
              num_players_selected_initial_destination_cards,
              num_players_done_playing>>

vars == <<phase, turn, map, card_dealer, players, players_position,
          num_players_selected_initial_destination_cards,
          num_players_done_playing, result, extracted, shard, requests, pool>>

hostVars == <<shard, requests, pool>>

\* The manager the variables hold.
Mgr ==
  [phase |-> phase, turn |-> turn, map |-> map, card_dealer |-> card_dealer,
   players |-> players, players_position |-> players_position,
   num_players_selected_initial_destination_cards |->
     num_players_selected_initial_destination_cards,
   num_players_done_playing |-> num_players_done_playing]

\* The call returns outcome o.
Returns(o) ==
  /\ phase' = o.m.phase
  /\ turn' = o.m.turn
  /\ map' = o.m.map
  /\ card_dealer' = o.m.card_dealer
  /\ players' = o.m.players
  /\ players_position' = o.m.players_position
  /\ num_players_selected_initial_destination_cards' =
       o.m.num_players_selected_initial_destination_cards
  /\ num_players_done_playing' = o.m.num_players_done_playing
  /\ result' = o.res
  /\ extracted' = extracted
  /\ UNCHANGED hostVars

\* Inputs of the calls.
PlayerIdInputs == 0..MAX_PLAYERS

\* The lobby edits are made for the last player and for an id no player has.
LobbyIdInputs == {MAX_PLAYERS - 1, MAX_PLAYERS}

NameInputs == {"Bob"}

ColorInputs == {"yellow"}

DecisionInputs == {<<TRUE, FALSE, TRUE>>, <<FALSE, FALSE, FALSE>>, <<>>}

\* The first slot, the last slot, and an index past the open deck.
CardIndexInputs == {0, NUM_OPEN_TRAIN_CARDS - 1, NUM_OPEN_TRAIN_CARDS}

\* Claims: one request for each outcome of the checks on a claim.
ClaimRouteRequest(route, parallel_route_index, cards) ==
  [route |-> route, parallel_route_index |-> parallel_route_index, cards |-> cards]

ClaimInputs ==
  { ClaimRouteRequest(<<"Dallas", "Houston">>, 0, <<"black">>),
    ClaimRouteRequest(<<"Houston", "Dallas">>, 1, <<"wild">>),
    ClaimRouteRequest(<<"Denver", "SantaFe">>, 0, <<"black", "black">>),
    ClaimRouteRequest(<<"SantaFe", "ElPaso">>, 0, <<"black", "black">>),
    ClaimRouteRequest(<<"ElPaso", "SantaFe">>, 1, <<"black", "black">>),
    ClaimRouteRequest(<<"Dallas", "Denver">>, 0, <<"black">>),
    ClaimRouteRequest(<<"Denver", "SantaFe">>, 0, <<"black">>),
    ClaimRouteRequest(<<"Denver", "SantaFe">>, 0, <<"black", "blue">>),
    ClaimRouteRequest(<<"Denver", "SantaFe">>, 0, <<"black", "black", "black">>) }

\* The Playing phase is explored up to turn MaxTurn; the last turn of each
\* player, which ends by itself, is explored whole.
WithinBound == phase = "Playing" => turn[1] < MaxTurn

Init ==
  /\ phase = ManagerNew.phase
  /\ turn = ManagerNew.turn
  /\ map = ManagerNew.map
  /\ card_dealer = ManagerNew.card_dealer
  /\ players = ManagerNew.players
  /\ players_position = ManagerNew.players_position
  /\ num_players_selected_initial_destination_cards =
       ManagerNew.num_players_selected_initial_destination_cards
  /\ num_players_done_playing = ManagerNew.num_players_done_playing
  /\ result = "NoCall"
  /\ extracted = EmptyDeck
  /\ shard = Unlocked
  /\ requests = NoRequests
  /\ pool = PoolIdle

AddPlayer == \E o \in add_player(Mgr) : Returns(o)

ChangePlayerName(player_id, new_name) ==
  \E o \in change_player_name(Mgr, player_id, new_name) : Returns(o)

ChangePlayerColor(player_id, new_color) ==
  \E o \in change_player_color(Mgr, player_id, new_color) : Returns(o)

SetReady(player_id, is_ready) ==
  \E o \in set_ready(Mgr, player_id, is_ready) : Returns(o)

SelectDestinationCards(player_id, destination_cards_decisions) ==
  /\ WithinBound
  /\ \E o \in select_destination_cards(Mgr, player_id, destination_cards_decisions) :
       Returns(o)

DrawDestinationCards(player_id) ==
  /\ WithinBound
  /\ \E o \in draw_destination_cards(Mgr, player_id) : Returns(o)

DrawOpenTrainCard(player_id, card_index) ==
  /\ WithinBound
  /\ \E o \in draw_open_train_card(Mgr, player_id, card_index) : Returns(o)

DrawCloseTrainCard(player_id) ==
  /\ WithinBound
  /\ \E o \in draw_close_train_card(Mgr, player_id) : Returns(o)

ClaimRoute(player_id, route, parallel_route_index, cards) ==
  /\ WithinBound
  /\ \E o \in claim_route(Mgr, player_id, route, parallel_route_index, cards) :
       Returns(o)

Next ==
  \/ AddPlayer
  \/ \E player_id \in LobbyIdInputs, new_name \in NameInputs :
       ChangePlayerName(player_id, new_name)
  \/ \E player_id \in LobbyIdInputs, new_color \in ColorInputs :
       ChangePlayerColor(player_id, new_color)
  \/ \E player_id \in PlayerIdInputs, is_ready \in BOOLEAN :
       SetReady(player_id, is_ready)
  \/ \E player_id \in PlayerIdInputs, decisions \in DecisionInputs :
       SelectDestinationCards(player_id, decisions)
  \/ \E player_id \in PlayerIdInputs : DrawDestinationCards(player_id)
  \/ \E player_id \in PlayerIdInputs, card_index \in CardIndexInputs :
       DrawOpenTrainCard(player_id, card_index)
  \/ \E player_id \in PlayerIdInputs : DrawCloseTrainCard(player_id)
  \/ \E player_id \in PlayerIdInputs, request \in ClaimInputs :
       ClaimRoute(player_id, request.route, request.parallel_route_index,
                  request.cards)

Spec == Init /\ [][Next]_vars

(***************************************************************************)
(* A CardDealer driven on its own, as the tests of card.rs drive it: the   *)
(* dealer is held in card_dealer, the cards its callers took are in        *)
(* `extracted`, and the other fields of the Manager stay as constructed.   *)
(***************************************************************************)
\* The outcomes of the shuffle of CardDealer::new the dealer starts from: those
\* that leave the wild cards of the first five cards in front of the others.
DealerShuffles ==
  {r \in PopUpTo(AllTrainCards(DealerWildCards, DealerNonWildCards),
                 NUM_OPEN_TRAIN_CARDS) :
     \A i, j \in DOMAIN r.cards : (i < j /\ is_wild(r.cards[j])) => is_wild(r.cards[i])}

\* The cards a caller can hand back: up to MaxDiscard of those it took, the
\* wild cards last (the order of the cards discarded does not matter).
DiscardInputs ==
  {train_cards \in UNION {[1..n -> DeckColors] : n \in 1..MaxDiscard} :
     /\ \A c \in DeckColors : CountOf(train_cards, c) <= extracted[c]
     /\ \A i, j \in DOMAIN train_cards :
          (i < j /\ is_wild(train_cards[i])) => is_wild(train_cards[j])}

DealerReturns(res, d, taken) ==
  /\ card_dealer' = Some(d)
  /\ result' = res
  /\ extracted' = taken
  /\ UNCHANGED hostVars
  /\ UNCHANGED <<phase, turn, map, players, players_position,
                 num_players_selected_initial_destination_cards,
                 num_players_done_playing>>

DealerInit ==
  /\ phase = ManagerNew.phase
  /\ turn = ManagerNew.turn
  /\ map = ManagerNew.map
  /\ card_dealer \in {Some(d) : d \in CardDealersFrom(DealerShuffles)}
  /\ players = ManagerNew.players
  /\ players_position = ManagerNew.players_position
  /\ num_players_selected_initial_destination_cards =
       ManagerNew.num_players_selected_initial_destination_cards
  /\ num_players_done_playing = ManagerNew.num_players_done_playing
  /\ result = "NoCall"
  /\ extracted = EmptyDeck
  /\ shard = Unlocked
  /\ requests = NoRequests
  /\ pool = PoolIdle

DealerDrawFromClose ==
  \E o \in draw_from_close_train_card_deck(card_dealer[1]) :
    DealerReturns(o.res, o.d,
                  IF o.res = "Ok" THEN DeckAdd(extracted, o.card, 1) ELSE extracted)

DealerDrawFromOpen(card_index, is_second_draw) ==
  \E o \in draw_from_open_train_card_deck(card_dealer[1], card_index, is_second_draw) :
    DealerReturns(o.res, o.d,
                  IF o.res = "Ok" THEN DeckAdd(extracted, o.card, 1) ELSE extracted)

DealerDiscardTrainCards(train_cards) ==
  DealerReturns("Ok", discard_train_cards(card_dealer[1], train_cards),
                [c \in TrainColor |-> extracted[c] - CountOf(train_cards, c)])

\* initial_draw is called as start_game calls it: on a dealer just constructed,
\* or just after another initial draw, and while it cannot fail.
DealerInitialDraw ==
  /\ result \in {"NoCall", "Dealt"}
  /\ \E o \in initial_draw(card_dealer[1]) :
       /\ o.res = "Ok"
       /\ DealerReturns("Dealt", o.d, DeckUnion(extracted, DeckOfSeq(o.train_cards)))

DealerNext ==
  \/ DealerDrawFromClose
  \/ \E card_index \in CardIndexInputs, is_second_draw \in BOOLEAN :
       DealerDrawFromOpen(card_index, is_second_draw)
  \/ \E train_cards \in DiscardInputs : DealerDiscardTrainCards(train_cards)
  \/ DealerInitialDraw

DealerSpec == DealerInit /\ [][DealerNext]_vars

(***************************************************************************)
(* A Map driven on its own, as the tests of map.rs drive it: the map is    *)
(* held in `map`, claims are made through claim_route_for_player, and the  *)
(* other fields of the Manager stay as constructed.                        *)
(***************************************************************************)
\* The numbers of players Map::new accepts.
MapPlayerCounts == {n \in 0..6 : MapNew(n).res = "Ok"}

MapPlayerIds == 0..2

\* Keys with and without routes, indexes in and out of range, and cards of
\* every length a route of the model has, of one colour, with wild cards and
\* of mixed colours.
MapRouteInputs == RouteKeys \cup {<<"Dallas", "Denver">>}

MapIndexInputs == 0..2

MapCardInputs ==
  { <<>>, <<"black">>, <<"wild">>, <<"black", "black">>, <<"black", "wild">>,
    <<"black", "blue">>, <<"black", "black", "black">> }

MapInit ==
  /\ phase = ManagerNew.phase
  /\ turn = ManagerNew.turn
  /\ map \in {Some(MapNew(n).map) : n \in MapPlayerCounts}
  /\ card_dealer = ManagerNew.card_dealer
  /\ players = ManagerNew.players
  /\ players_position = ManagerNew.players_position
  /\ num_players_selected_initial_destination_cards =
       ManagerNew.num_players_selected_initial_destination_cards
  /\ num_players_done_playing = ManagerNew.num_players_done_playing
  /\ result = "NoCall"
  /\ extracted = EmptyDeck
  /\ shard = Unlocked
  /\ requests = NoRequests
  /\ pool = PoolIdle

\* The result is "Ok" or the check that refused the claim.
MapClaimRoute(route, parallel_route_index, cards, player_id) ==
  LET r == claim_route_for_player(map[1], route, parallel_route_index, cards, player_id)
  IN /\ map' = Some(r.map)
     /\ result' = IF r.res = "Ok" THEN "Ok" ELSE r.err
     /\ UNCHANGED <<phase, turn, card_dealer, players, players_position,
                    num_players_selected_initial_destination_cards,
                    num_players_done_playing, extracted, shard, requests, pool>>

\* Claims of the route of four red cars, by its first claimer: with cards of
\* its colour, with wild cards among them, and with cards of another colour.
MapLongClaims ==
  { ClaimRouteRequest(<<"Dallas", "ElPaso">>, 0, <<"red", "red", "red", "red">>),
    ClaimRouteRequest(<<"ElPaso", "Dallas">>, 0, <<"wild", "red", "wild", "red">>),
    ClaimRouteRequest(<<"Dallas", "ElPaso">>, 0,
                      <<"black", "black", "black", "black">>) }

MapNext ==
  \/ \E route \in MapRouteInputs, parallel_route_index \in MapIndexInputs,
        cards \in MapCardInputs, player_id \in MapPlayerIds :
       MapClaimRoute(route, parallel_route_index, cards, player_id)
  \/ \E request \in MapLongClaims :
       MapClaimRoute(request.route, request.parallel_route_index,
                     request.cards, 0)

MapSpec == MapInit /\ [][MapNext]_vars

(***************************************************************************)
(* The lobby on its own: players join, and any id renames or recolours to  *)
(* any of the names and colours below, default names included.             *)
(***************************************************************************)
LobbyNames == {"Bob", "Player 0", "Player 1", "Player 01"}

LobbyColors == {PlayerColor[k] : k \in DOMAIN PlayerColor}

LobbyNext ==
  \/ AddPlayer
  \/ \E player_id \in PlayerIdInputs, new_name \in LobbyNames :
       ChangePlayerName(player_id, new_name)
  \/ \E player_id \in PlayerIdInputs, new_color \in LobbyColors :
       ChangePlayerColor(player_id, new_color)

LobbySpec == Init /\ [][LobbyNext]_vars

(***************************************************************************)
(* Map::get_longest_route called on its own, as the tests of map.rs call   *)
(* it: the vector of claimed routes is the one of a player that is not in  *)
(* a game, and `result` holds the length returned.                         *)
(***************************************************************************)
\* The ClaimedRoute of each route of the map, named from either end.
ClaimedRouteInputs ==
  {[route |-> e[1], parallel_route_index |-> e[2],
    length |-> US_MAP[ParallelRoutes(e[1])[e[2] + 1][1]].length] :
     e \in {x \in RouteKeys \X {0, 1} : x[2] < Len(ParallelRoutes(x[1]))}}

\* The route of the map a ClaimedRoute stands for.
CellOf(claimed_route) ==
  ParallelRoutes(claimed_route.route)[claimed_route.parallel_route_index + 1]

LongestRouteInit ==
  /\ phase = ManagerNew.phase
  /\ turn = ManagerNew.turn
  /\ map = ManagerNew.map
  /\ card_dealer = ManagerNew.card_dealer
  /\ players = <<PlayerNew(0, PlayerColor[1], "Player 0")>>
  /\ players_position = ManagerNew.players_position
  /\ num_players_selected_initial_destination_cards =
       ManagerNew.num_players_selected_initial_destination_cards
  /\ num_players_done_playing = ManagerNew.num_players_done_playing
  /\ result = get_longest_route(<<>>)
  /\ extracted = EmptyDeck
  /\ shard = Unlocked
  /\ requests = NoRequests
  /\ pool = PoolIdle

\* One more claimed route, of a route not yet in the vector, and the call.
GetLongestRoute(claimed_route) ==
  /\ \A i \in DOMAIN players[1].claimed_routes :
       CellOf(players[1].claimed_routes[i]) # CellOf(claimed_route)
  /\ players' = [players EXCEPT ![1].claimed_routes = Append(@, claimed_route)]
  /\ result' = get_longest_route(players'[1].claimed_routes)
  /\ UNCHANGED <<phase, turn, map, card_dealer, players_position,
                 num_players_selected_initial_destination_cards,
                 num_players_done_playing, extracted, shard, requests, pool>>

LongestRouteNext ==
  \E claimed_route \in ClaimedRouteInputs : GetLongestRoute(claimed_route)

LongestRouteSpec == LongestRouteInit /\ [][LongestRouteNext]_vars

(***************************************************************************)
(* maybe_reshuffle_open_train_card_deck level by level: each step is one   *)
(* level of the recursion, from any dealer it can be called on.  The       *)
(* shuffles are fair: an order that can come up again and again does.      *)
(***************************************************************************)
\* The open decks up to the order of their slots, which the normalisation
\* does not look at: wild cards, then the others, then the empty slots.
ReshuffleOpenDecks ==
  LET Rank(c) == IF c = "wild" THEN 0 ELSE IF c = None THEN 2 ELSE 1
  IN {open \in [1..NUM_OPEN_TRAIN_CARDS -> {"wild", "black", None}] :
        \A i, j \in DOMAIN open : i < j => Rank(open[i]) <= Rank(open[j])}

\* The dealers the normalisation can be called on that hold the cards of the
\* census: any open deck, any closed deck, the rest of the cards discarded,
\* and the closed deck empty only when the discarded deck is.
ReshuffleCensus ==
  LET InOpen(open, c) == Cardinality({i \in DOMAIN open : open[i] = c})
      Left(p, c, all) == all - InOpen(p[1], c) - p[IF c = "wild" THEN 2 ELSE 3]
  IN {[open_train_card_deck |-> p[1],
       close_train_card_deck |->
         [EmptyDeck EXCEPT !["wild"] = p[2], !["black"] = p[3]],
       discarded_train_card_deck |->
         [EmptyDeck EXCEPT !["wild"] = Left(p, "wild", ReshuffleWildCards),
                           !["black"] = Left(p, "black", ReshuffleNonWildCards)],
       destination_card_deck |-> <<>>] :
        p \in {q \in ReshuffleOpenDecks \X (0..ReshuffleWildCards)
                       \X (0..ReshuffleNonWildCards) :
                 /\ Left(q, "wild", ReshuffleWildCards) >= 0
                 /\ Left(q, "black", ReshuffleNonWildCards) >= 0
                 /\ q[2] + q[3] = 0 =>
                      Left(q, "wild", ReshuffleWildCards)
                        + Left(q, "black", ReshuffleNonWildCards) = 0}}

ReshuffleInit ==
  /\ phase = ManagerNew.phase
  /\ turn = ManagerNew.turn
  /\ map = ManagerNew.map
  /\ card_dealer \in {Some(d) : d \in ReshuffleCensus}
  /\ players = ManagerNew.players
  /\ players_position = ManagerNew.players_position
  /\ num_players_selected_initial_destination_cards =
       ManagerNew.num_players_selected_initial_destination_cards
  /\ num_players_done_playing = ManagerNew.num_players_done_playing
  /\ result = "NoCall"
  /\ extracted = EmptyDeck
  /\ shard = Unlocked
  /\ requests = NoRequests
  /\ pool = PoolIdle

\* The set S with its elements written out one by one.
Enumerated(S) == UNION {{x} : x \in S}

\* Every dealer the recursion can pass through, starting from `todo`.
RECURSIVE ReshuffleReach(_, _)
ReshuffleReach(todo, seen) ==
  IF todo = {} THEN Enumerated(seen)
  ELSE LET next == UNION {ReshuffleOnce(d) :
                            d \in {x \in todo :
                                     should_reshuffle_open_train_card_deck(x)}}
       IN ReshuffleReach(next \ (seen \cup todo), seen \cup todo)

ReshuffleReachable == ReshuffleReach(ReshuffleCensus, {})

\* RestLayers[k + 1] holds the dealers from which the recursion can stop
\* within k levels; the last layer adds nothing to the one before it.
RECURSIVE RestLayersFrom(_)
RestLayersFrom(layers) ==
  LET within == layers[Len(layers)]
      more == {d \in ReshuffleReachable \ within :
                 ReshuffleOnce(d) \cap within # {}}
  IN IF more = {} THEN layers
     ELSE RestLayersFrom(Append(layers, Enumerated(within \cup more)))

RestLayers ==
  RestLayersFrom(<<Enumerated({d \in ReshuffleReachable :
                                 ~should_reshuffle_open_train_card_deck(d)})>>)

\* The levels of recursion a normalisation needs at most when every deal is lucky.
LevelsToRest == Len(RestLayers) - 1

\* The recursion can stop within k levels from dealer d.
RestWithin(d, k) == d \in RestLayers[k + 1]

\* One level: the open deck is discarded and dealt again, e being the deal.
ReshuffleLevel(e) ==
  /\ should_reshuffle_open_train_card_deck(card_dealer[1])
  /\ card_dealer' = Some(e)
  /\ result' = "Reshuffled"
  /\ UNCHANGED <<phase, turn, map, players, players_position,
                 num_players_selected_initial_destination_cards,
                 num_players_done_playing, extracted, shard, requests, pool>>

ReshuffleNext == \E e \in ReshuffleOnce(card_dealer[1]) : ReshuffleLevel(e)

\* Every level the recursion can go through: the dealer before, the dealer
\* after.
ReshuffleDeals ==
  UNION {{<<d, e>> : e \in ReshuffleOnce(d)} :
           d \in {x \in ReshuffleReachable :
                    should_reshuffle_open_train_card_deck(x)}}

\* CloserDeals[k] holds the levels that bring the recursion from more than
\* k - 1 levels away from its rest to k - 1 at most.
RECURSIVE CloserDealsUpTo(_)
CloserDealsUpTo(k) ==
  IF k = 0 THEN <<>>
  ELSE Append(CloserDealsUpTo(k - 1),
              Enumerated({p \in ReshuffleDeals :
                            ~RestWithin(p[1], k - 1) /\ RestWithin(p[2], k - 1)}))

CloserDeals == CloserDealsUpTo(LevelsToRest)

\* One level of the recursion that is among `deals`.
ReshuffleDealt(deals) ==
  /\ should_reshuffle_open_train_card_deck(card_dealer[1])
  /\ card_dealer' \in {Some(p[2]) : p \in {q \in deals : q[1] = card_dealer[1]}}
  /\ result' = "Reshuffled"
  /\ UNCHANGED <<phase, turn, map, players, players_position,
                 num_players_selected_initial_destination_cards,
                 num_players_done_playing, extracted, shard, requests, pool>>

\* A deal that brings the recursion from k levels away to k - 1.
ReshuffleCloser(k) == ReshuffleDealt(CloserDeals[k])

\* The recursion goes on while it must, and its shuffles are fair.
FairShuffles ==
  /\ WF_vars(ReshuffleDealt(ReshuffleDeals))
  /\ \A k \in 1..LevelsToRest : SF_vars(ReshuffleCloser(k))

ReshuffleSpec == ReshuffleInit /\ [][ReshuffleNext]_vars /\ FairShuffles

(***************************************************************************)
(* The destination deck driven on its own, as the tests of card.rs drive   *)
(* it: a caller draws, holds what it drew in the pending cards of the one  *)
(* player, and hands some of it back in the order select_destination_cards *)
(* does, keeping the rest.                                                 *)
(***************************************************************************)
DestinationInit ==
  /\ phase = ManagerNew.phase
  /\ turn = ManagerNew.turn
  /\ map = ManagerNew.map
  /\ card_dealer =
       Some([open_train_card_deck |-> [i \in 1..NUM_OPEN_TRAIN_CARDS |-> None],
             close_train_card_deck |-> EmptyDeck,
             discarded_train_card_deck |-> EmptyDeck,
             destination_card_deck |-> [i \in 1..DestinationDeckSize |-> i]])
  /\ players = <<PlayerNew(0, PlayerColor[1], FormatPlayerName(0, 2))>>
  /\ players_position = ManagerNew.players_position
  /\ num_players_selected_initial_destination_cards =
       ManagerNew.num_players_selected_initial_destination_cards
  /\ num_players_done_playing = ManagerNew.num_players_done_playing
  /\ result = "NoCall"
  /\ extracted = EmptyDeck
  /\ shard = Unlocked
  /\ requests = NoRequests
  /\ pool = PoolIdle

DestinationReturns(res, d, pending, selected) ==
  /\ card_dealer' = Some(d)
  /\ players' = [players EXCEPT
                   ![1].pending_destination_cards = pending,
                   ![1].selected_destination_cards = @ \o selected]
  /\ result' = res
  /\ UNCHANGED <<phase, turn, map, players_position,
                 num_players_selected_initial_destination_cards,
                 num_players_done_playing, extracted, shard, requests, pool>>

\* The caller draws when it holds no pending card.
DestinationDraw ==
  /\ players[1].pending_destination_cards = <<>>
  /\ LET r == draw_from_destination_card_deck(card_dealer[1])
     IN DestinationReturns(r.res, r.d, r.cards, <<>>)

\* The caller hands back the pending cards it decides against.
DestinationDiscard(decisions) ==
  LET pending == players[1].pending_destination_cards
      n == Len(pending)
  IN /\ n > 0
     /\ Len(decisions) = n
     /\ DestinationReturns(
          "Discarded",
          discard_destination_cards(card_dealer[1],
                                    PendingBackwards(pending, decisions, FALSE, n)),
          <<>>, PendingBackwards(pending, decisions, TRUE, n))

DestinationNext ==
  \/ DestinationDraw
  \/ \E decisions \in UNION {[1..n -> BOOLEAN] :
                               n \in 1..NUM_DRAWN_DESTINATION_CARDS} :
       DestinationDiscard(decisions)

DestinationSpec == DestinationInit /\ [][DestinationNext]_vars

(***************************************************************************)
(* The web server: requests against one game of the DashMap, each on its   *)
(* own thread.  get_mut gives a RefMut that holds the entry exclusively    *)
(* until it is dropped, get gives a Ref that shares it with other Refs.    *)
(* A request is routed, takes its guard, runs its handler in the steps the *)
(* handler is made of, and drops the guard with its response.  `held` is   *)
(* the manager as it was when the guard was taken, `seen` what the handler *)
(* has read so far.                                                        *)
(***************************************************************************)
WriteKinds == {"load_game", "change_player_color"}

ReadKinds == {"get_game_state"}

HostColors == {PlayerColor[1], PlayerColor[7]}

\* A DashMap whose get_mut never waits.
CanGetMutAnytime(s) == TRUE

\* DashMap::get_mut waits until no Ref and no RefMut of the entry is left.
CanGetMut(s) == s.writer = Nil /\ s.readers = {}

\* DashMap::get waits until no RefMut of the entry is left.
CanGet(s) == s.writer = Nil

\* The handler's manager after a step, the guard and the other requests aside.
ManagerBecomes(m, res) ==
  /\ phase' = m.phase
  /\ turn' = m.turn
  /\ map' = m.map
  /\ card_dealer' = m.card_dealer
  /\ players' = m.players
  /\ players_position' = m.players_position
  /\ num_players_selected_initial_destination_cards' =
       m.num_players_selected_initial_destination_cards
  /\ num_players_done_playing' = m.num_players_done_playing
  /\ result' = res
  /\ extracted' = extracted

\* A request reaches the server: a page load without cookie, or a call with
\* the cookie of a player of the game.
Route(r, kind, player_id) ==
  /\ requests[r].pc = "idle"
  /\ kind = "load_game" \/ player_id \in PlayerIds(Mgr)
  /\ requests' = [requests EXCEPT ![r] =
                    [IdleRequest EXCEPT !.pc = "routed", !.kind = kind,
                                        !.player_id = player_id]]
  /\ UNCHANGED <<gameVars, result, extracted, shard, pool>>

GetMut(r) ==
  /\ requests[r].pc = "routed"
  /\ requests[r].kind \in WriteKinds
  /\ CanGetMut(shard)
  /\ shard' = [shard EXCEPT !.writer = Some(r)]
  /\ requests' = [requests EXCEPT ![r].pc = "guarded", ![r].held = Some(Mgr)]
  /\ UNCHANGED <<gameVars, result, extracted, pool>>

Get(r) ==
  /\ requests[r].pc = "routed"
  /\ requests[r].kind \in ReadKinds
  /\ CanGet(shard)
  /\ shard' = [shard EXCEPT !.readers = @ \cup {r}]
  /\ requests' = [requests EXCEPT ![r].pc = "guarded", ![r].held = Some(Mgr)]
  /\ UNCHANGED <<gameVars, result, extracted, pool>>

\* Manager::add_player up to `let player_id = self.num_players()`.
LoadGameNumPlayers(r) ==
  /\ requests[r].pc = "guarded"
  /\ requests[r].kind = "load_game"
  /\ IF phase # "InLobby" \/ num_players(Mgr) = MAX_PLAYERS
     THEN /\ requests' = [requests EXCEPT ![r].pc = "served"]
          /\ result' = "None"
     ELSE /\ requests' = [requests EXCEPT ![r].pc = "pushing",
                                          ![r].seen = Some(num_players(Mgr))]
          /\ result' = result
  /\ UNCHANGED <<gameVars, extracted, shard, pool>>

\* Manager::add_player from self.players.push on.
LoadGamePush(r) ==
  /\ requests[r].pc = "pushing"
  /\ LET player_id == requests[r].seen[1]
         player == PlayerNew(player_id, generate_default_player_color(Mgr),
                             generate_default_player_name(Mgr, player_id))
     IN ManagerBecomes([Mgr EXCEPT !.players = Append(@, player)], "Ok")
  /\ requests' = [requests EXCEPT ![r].pc = "served"]
  /\ UNCHANGED <<shard, pool>>

HostChangePlayerColor(r, new_color) ==
  /\ requests[r].pc = "guarded"
  /\ requests[r].kind = "change_player_color"
  /\ \E o \in change_player_color(Mgr, requests[r].player_id, new_color) :
       ManagerBecomes(o.m, o.res)
  /\ requests' = [requests EXCEPT ![r].pc = "served"]
  /\ UNCHANGED <<shard, pool>>

\* Manager::get_state up to card_dealer_state.
GetStateHead(r) ==
  /\ requests[r].pc = "guarded"
  /\ requests[r].kind = "get_game_state"
  /\ requests' = [requests EXCEPT
       ![r].pc = "reading",
       ![r].seen = Some([phase |-> phase, turn |-> turn,
                         card_dealer_state |->
                           get_state(Mgr, requests[r].player_id).card_dealer_state])]
  /\ UNCHANGED <<gameVars, result, extracted, shard, pool>>

\* Manager::get_state: players_state, and the GameState is complete.
GetStatePlayers(r) ==
  /\ requests[r].pc = "reading"
  /\ requests' = [requests EXCEPT
       ![r].pc = "served",
       ![r].seen = Some([phase |-> requests[r].seen[1].phase,
                         turn |-> requests[r].seen[1].turn,
                         card_dealer_state |-> requests[r].seen[1].card_dealer_state,
                         players_state |->
                           get_state(Mgr, requests[r].player_id).players_state])]
  /\ UNCHANGED <<gameVars, result, extracted, shard, pool>>

\* The response is sent and the guard dropped.
Drop(r) ==
  /\ requests[r].pc = "served"
  /\ shard' = [writer |-> IF shard.writer = Some(r) THEN Nil ELSE shard.writer,
               readers |-> shard.readers \ {r}]
  /\ requests' = [requests EXCEPT ![r] = IdleRequest]
  /\ UNCHANGED <<gameVars, result, extracted, pool>>

ControllerNext ==
  \E r \in Requests :
    \/ \E kind \in WriteKinds \cup ReadKinds, player_id \in 0..(MAX_PLAYERS - 1) :
         Route(r, kind, player_id)
    \/ GetMut(r)
    \/ Get(r)
    \/ LoadGameNumPlayers(r)
    \/ LoadGamePush(r)
    \/ \E new_color \in HostColors : HostChangePlayerColor(r, new_color)
    \/ GetStateHead(r)
    \/ GetStatePlayers(r)
    \/ Drop(r)

ControllerSpec == Init /\ [][ControllerNext]_vars

(***************************************************************************)
(* Map::get_longest_route on THREAD_POOL, called for several games at the  *)
(* same time.  A call locks the pool and keeps the lock until it returns;  *)
(* ThreadPool::execute queues a job without waiting and a free thread of   *)
(* the pool takes the oldest one; sync_channel(0) is a rendezvous: send    *)
(* returns when recv has taken the value.  A thread that holds a job has   *)
(* computed its value and waits in tx.send.                                *)
(***************************************************************************)
Calls == 1..NumCalls

\* The vectors of claimed routes of the games: none, one route, two routes
\* that meet in a city.
PoolGames ==
  LET claimed(route) ==
        [route |-> route, parallel_route_index |-> 0,
         length |-> US_MAP[ParallelRoutes(route)[1][1]].length]
  IN {<<>>,
      <<claimed(<<"Dallas", "Houston">>)>>,
      <<claimed(<<"Denver", "SantaFe">>), claimed(<<"SantaFe", "ElPaso">>)>>}

\* cities_to_visit: the HashSet of the ends of the claimed routes.
CitiesToVisit(claimed_routes) ==
  UNION {{claimed_routes[i].route[1], claimed_routes[i].route[2]} :
           i \in DOMAIN claimed_routes}

\* A count of the ends of the claimed routes that counts a city once for
\* each route it ends.
num_route_ends(claimed_routes) == 2 * Len(claimed_routes)

\* num_cities_to_visit = cities_to_visit.len()
num_cities_to_visit(claimed_routes) == Cardinality(CitiesToVisit(claimed_routes))

PoolInit ==
  /\ phase = ManagerNew.phase
  /\ turn = ManagerNew.turn
  /\ map = ManagerNew.map
  /\ card_dealer = ManagerNew.card_dealer
  /\ players = ManagerNew.players
  /\ players_position = ManagerNew.players_position
  /\ num_players_selected_initial_destination_cards =
       ManagerNew.num_players_selected_initial_destination_cards
  /\ num_players_done_playing = ManagerNew.num_players_done_playing
  /\ result = get_longest_route(<<>>)
  /\ extracted = EmptyDeck
  /\ shard = Unlocked
  /\ requests = NoRequests
  /\ pool \in {[PoolIdle EXCEPT !.num_threads = n] : n \in 1..NumWorkers}

PoolBecomes(next, res) ==
  /\ pool' = next
  /\ result' = res
  /\ UNCHANGED <<gameVars, extracted, shard, requests>>

\* get_longest_route up to THREAD_POOL.lock(): the cities are deduplicated.
PoolCall(c, claimed_routes) ==
  /\ pool.calls[c].pc = "idle"
  /\ PoolBecomes([pool EXCEPT !.calls[c] =
                    [IdleCall EXCEPT !.pc = "waiting",
                                     !.claimed_routes = claimed_routes,
                                     !.cities_to_visit = CitiesToVisit(claimed_routes)]],
                 result)

\* THREAD_POOL.lock().unwrap()
PoolLock(c) ==
  /\ pool.calls[c].pc = "waiting"
  /\ pool.holder = Nil
  /\ PoolBecomes([pool EXCEPT !.holder = Some(c),
                              !.calls[c].pc = IF pool.calls[c].cities_to_visit = {}
                                              THEN "receiving" ELSE "spawning"],
                 result)

\* thread_pool.execute for the next city of the HashSet, in any order.
PoolExecute(c, city) ==
  /\ pool.calls[c].pc = "spawning"
  /\ city \in pool.calls[c].cities_to_visit
  /\ PoolBecomes([pool EXCEPT
                    !.queue = Append(@, [call |-> c, city |-> city]),
                    !.calls[c].cities_to_visit = @ \ {city},
                    !.calls[c].pc = IF pool.calls[c].cities_to_visit = {city}
                                    THEN "receiving" ELSE "spawning"],
                 result)

\* A free thread takes the oldest job and runs it up to tx.send.
PoolRun(w) ==
  /\ w <= pool.num_threads
  /\ pool.workers[w] = Nil
  /\ pool.queue # <<>>
  /\ LET job == Head(pool.queue)
     IN PoolBecomes([pool EXCEPT
                       !.queue = Tail(@),
                       !.workers[w] =
                         Some([call |-> job.call, city |-> job.city,
                               value |-> get_longest_route_from_city(
                                           job.city,
                                           pool.calls[job.call].claimed_routes,
                                           {}, 0)])],
                    result)

\* rx.recv() meets the tx.send of thread w.
PoolRecv(c, w) ==
  /\ pool.calls[c].pc = "receiving"
  /\ pool.calls[c].num_received < num_cities_to_visit(pool.calls[c].claimed_routes)
  /\ pool.workers[w] # Nil
  /\ pool.workers[w][1].call = c
  /\ PoolBecomes([pool EXCEPT
                    !.workers[w] = Nil,
                    !.calls[c].num_received = @ + 1,
                    !.calls[c].received_from = @ \cup {pool.workers[w][1].city},
                    !.calls[c].longest_route = Max(@, pool.workers[w][1].value)],
                 result)

\* The loop over rx.recv() is over: the call returns and the lock is dropped.
PoolReturn(c) ==
  /\ pool.calls[c].pc = "receiving"
  /\ pool.calls[c].num_received = num_cities_to_visit(pool.calls[c].claimed_routes)
  /\ PoolBecomes([pool EXCEPT !.holder = Nil, !.calls[c].pc = "returned"],
                 pool.calls[c].longest_route)

PoolNext ==
  \/ \E c \in Calls, claimed_routes \in PoolGames : PoolCall(c, claimed_routes)
  \/ \E c \in Calls : PoolLock(c)
  \/ \E c \in Calls : \E city \in pool.calls[c].cities_to_visit :
       PoolExecute(c, city)
  \/ \E w \in 1..NumWorkers : PoolRun(w)
  \/ \E c \in Calls, w \in 1..NumWorkers : PoolRecv(c, w)
  \/ \E c \in Calls : PoolReturn(c)

\* Every thread that can take a step does so sooner or later.
PoolSpec == PoolInit /\ [][PoolNext]_vars /\ WF_vars(PoolNext)

(***************************************************************************)
(* Properties.                                                             *)
(***************************************************************************)
PhaseOrder == <<"InLobby", "Starting", "Playing", "LastTurn", "Done">>

PhaseRank(p) == CHOOSE k \in DOMAIN PhaseOrder : PhaseOrder[k] = p

\* C1: the phase only ever moves one step forward along
\* InLobby -> Starting -> Playing -> LastTurn -> Done: no call moves it
\* backwards, skips a phase, or leaves Done.
C1_PhaseMovesOneStepForward ==
  [][phase' # phase => PhaseRank(phase') = PhaseRank(phase) + 1]_vars

\* A game that has travelled the whole order.
C1_Witness ==
  /\ phase = "Done"
  /\ result = "Ok"

\* The requests the properties range over.
AllDecisions == UNION {[1..n -> BOOLEAN] : n \in 0..NUM_DRAWN_DESTINATION_CARDS}

AllCardIndexes == 0..NUM_OPEN_TRAIN_CARDS

\* The outcomes of the selections player_id can request of manager m.
SelectionOutcomes(m, player_id) ==
  UNION {select_destination_cards(m, player_id, decisions) :
           decisions \in AllDecisions}

\* The outcomes of the other game actions player_id can request of m.
DrawAndClaimOutcomes(m, player_id) ==
  UNION {
    draw_destination_cards(m, player_id),
    draw_close_train_card(m, player_id),
    UNION {draw_open_train_card(m, player_id, card_index) :
             card_index \in AllCardIndexes},
    UNION {claim_route(m, player_id, request.route,
                       request.parallel_route_index, request.cards) :
             request \in ClaimInputs} }

GameActionOutcomes(m, player_id) ==
  SelectionOutcomes(m, player_id) \cup DrawAndClaimOutcomes(m, player_id)

\* The outcomes of the calls of the lobby: a new player, a new name or colour,
\* a change of the ready flag.
AllNames == {"Bob", "Zed", "Player 0", "Player 1"}

AllPlayerColors == {PlayerColor[k] : k \in DOMAIN PlayerColor}

LobbyOutcomes(m) ==
  UNION {
    add_player(m),
    UNION {change_player_name(m, player_id, new_name) :
             player_id \in PlayerIdInputs, new_name \in AllNames},
    UNION {change_player_color(m, player_id, new_color) :
             player_id \in PlayerIdInputs, new_color \in AllPlayerColors},
    UNION {set_ready(m, player_id, is_ready) :
             player_id \in PlayerIdInputs, is_ready \in BOOLEAN} }

\* C2: in Playing and LastTurn, every game action (drawing or selecting
\* destination cards, drawing an open or a closed train card, claiming a
\* route) requested by a player whose turn-order index is not turn mod N
\* returns an error and leaves the manager as it was.
C2_OutOfTurnActionRejected ==
  phase \in {"Playing", "LastTurn"} =>
    \A player_id \in PlayerIds(Mgr) :
      players_position[player_id] # turn[1] % Len(players) =>
        \A o \in GameActionOutcomes(Mgr, player_id) :
          IsErr(o.res) /\ o.m = Mgr

\* A player has just been told that it is not their turn.
C2_Witness ==
  /\ phase \in {"Playing", "LastTurn"}
  /\ result = "NotYourTurn"

HasSelectedInitially(player) ==
  /\ player.pending_destination_cards = <<>>
  /\ player.turn_actions.actions # <<>>

\* C4: in Starting, the successful initial selection of each player is
\* counted exactly once: the counter is the number of players that have
\* selected, a player that has selected cannot select again, whichever player
\* selects (in any order) adds one to the counter, and the phase becomes
\* Playing with turn 0 exactly when the last of the N players selects.
C4_InitialSelectionCountedOnce ==
  phase = "Starting" =>
    /\ num_players_selected_initial_destination_cards =
         Cardinality({i \in DOMAIN players : HasSelectedInitially(players[i])})
    /\ num_players_selected_initial_destination_cards < Len(players)
    /\ \A player_id \in PlayerIds(Mgr), decisions \in AllDecisions :
         \A o \in select_destination_cards(Mgr, player_id, decisions) :
           LET player == players[players_position[player_id] + 1]
               counted == num_players_selected_initial_destination_cards + 1
           IN /\ HasSelectedInitially(player) => IsErr(o.res) /\ o.m = Mgr
              /\ o.res = "Ok" =>
                   /\ o.m.num_players_selected_initial_destination_cards = counted
                   /\ IF counted = Len(players)
                      THEN o.m.phase = "Playing" /\ o.m.turn = Some(0)
                      ELSE o.m.phase = "Starting" /\ o.m.turn = Nil
              /\ ~HasSelectedInitially(player)
                   => \E d \in AllDecisions :
                        \E o2 \in select_destination_cards(Mgr, player_id, d) :
                          o2.res = "Ok"

\* The player second in turn order has selected before the first one.
C4_Witness ==
  /\ phase = "Starting"
  /\ result = "Ok"
  /\ num_players_selected_initial_destination_cards = 1
  /\ HasSelectedInitially(players[2])
  /\ ~HasSelectedInitially(players[1])

\* The player whose turn it is: the one at index turn mod N.
TurnOwner(all_players, t) == all_players[(t[1] % Len(all_players)) + 1]

\* The log of a player whose turn is over: destination cards selected, a
\* route claimed, an open wild card drawn, two train cards drawn, or one
\* train card drawn with none left to draw from dealer d.
TurnIsOver(player, d) ==
  LET actions == player.turn_actions.actions IN
  \/ actions[Len(actions)] \in
       {"SelectedDestinationCards", "ClaimedRoute", "DrewOpenWildTrainCard"}
  \/ Len(actions) = 2
  \/ /\ actions \in {<<"DrewOpenNonWildTrainCard">>, <<"DrewCloseTrainCard">>}
     /\ ~can_player_draw_again_this_turn(d)

TurnNoneBeforePlaying == (turn = Nil) <=> (phase \in {"InLobby", "Starting"})

TurnStep ==
  /\ (turn = Nil /\ turn' # Nil) => turn' = Some(0)
  /\ turn # Nil =>
       /\ turn' = turn \/ turn' = Some(turn[1] + 1)
       /\ result' # "Ok" => turn' = turn
       /\ (result' = "Ok" /\ gameVars' # gameVars) =>
            LET actor == TurnOwner(players', turn) IN
            /\ TurnOwner(players, turn) # actor
            /\ actor.turn_actions.turn = turn
            /\ (turn' = Some(turn[1] + 1)) <=> TurnIsOver(actor, card_dealer'[1])

\* C5: turn is None exactly while the phase is InLobby or Starting; once the
\* game is turn-based it never decreases: a call leaves it unchanged or adds
\* one; it adds one exactly when the player at index turn mod N ends their
\* turn, and leaves it unchanged when that player's action does not end the
\* turn (drawing destination cards, a first train card with another one left
\* to draw) or when the call fails.
C5_TurnCounter == []TurnNoneBeforePlaying /\ [][TurnStep]_vars

\* Turn 0 has been ended, and in turn 1 its owner has drawn destination
\* cards, which has left the turn at 1.
C5_Witness ==
  /\ turn = Some(1)
  /\ result = "Ok"
  /\ TurnOwner(players, turn).turn_actions =
       [turn |-> Some(1), actions |-> <<"DrewDestinationCards">>]

\* C6: whenever a successful action in Playing leaves the acting player with
\* fewer than three cars, the phase is LastTurn immediately after it.
C6_FewCarsStartLastTurn ==
  [][(/\ phase = "Playing"
      /\ result' = "Ok"
      /\ \E i \in DOMAIN players :
           players'[i] # players[i] /\ players'[i].cars < 3)
     => phase' = "LastTurn"]_vars

\* The first player in turn order has claimed a route in turn 0, which has
\* left them with fewer than three cars and has started the last turn.
C6_Witness ==
  /\ phase = "LastTurn"
  /\ turn = Some(1)
  /\ result = "Ok"
  /\ num_players_done_playing = 0
  /\ players[1].cars < 3
  /\ players[1].turn_actions = [turn |-> Some(0), actions |-> <<"ClaimedRoute">>]

DonePlaying(all_players) ==
  {i \in DOMAIN all_players : all_players[i].is_done_playing}

LastTurnCounted ==
  /\ phase \in {"InLobby", "Starting", "Playing"} => DonePlaying(players) = {}
  /\ phase = "LastTurn" =>
       /\ num_players_done_playing = Cardinality(DonePlaying(players))
       /\ num_players_done_playing < Len(players)
  /\ phase = "Done" =>
       /\ num_players_done_playing = Len(players)
       /\ DonePlaying(players) = DOMAIN players

LastTurnStep ==
  phase = "LastTurn" =>
    LET i == (turn[1] % Len(players)) + 1 IN
    IF turn' # turn
    THEN /\ ~players[i].is_done_playing
         /\ DonePlaying(players') = DonePlaying(players) \cup {i}
         /\ num_players_done_playing' = num_players_done_playing + 1
         /\ phase' = (IF num_players_done_playing' = Len(players)
                      THEN "Done" ELSE "LastTurn")
    ELSE /\ DonePlaying(players') = DonePlaying(players)
         /\ num_players_done_playing' = num_players_done_playing
         /\ phase' = "LastTurn"

\* C7: once the phase is LastTurn, every turn-ending action marks the acting
\* player as done playing and adds one to num_players_done_playing; no player
\* is marked twice; the phase becomes Done exactly when the counter reaches
\* the number of players, and then every player is marked.
C7_LastTurnCountsEachPlayerOnce == []LastTurnCounted /\ [][LastTurnStep]_vars

\* The last player has just ended their last turn.
C7_Witness ==
  /\ phase = "Done"
  /\ result = "Ok"
  /\ num_players_done_playing = Len(players)
  /\ \A i \in DOMAIN players : players[i].is_done_playing

LongestRouteOf(player) == get_longest_route(player.claimed_routes)

\* C8: when the game is Done, has_longest_route is set for every player: to
\* true exactly for the players whose longest route is as long as the longest
\* of all (every player of a tie), to false for the others; before Done it is
\* unset for every player.
C8_LongestRouteFlags ==
  \A i \in DOMAIN players :
    IF phase = "Done"
    THEN players[i].has_longest_route =
           Some(\A j \in DOMAIN players :
                  LongestRouteOf(players[j]) <= LongestRouteOf(players[i]))
    ELSE players[i].has_longest_route = Nil

\* A finished game with a winner of the longest route and a loser of it.
C8_Witness ==
  /\ phase = "Done"
  /\ \E i, j \in DOMAIN players :
       /\ players[i].has_longest_route = Some(TRUE)
       /\ players[j].has_longest_route = Some(FALSE)
       /\ LongestRouteOf(players[j]) > 0

\* C9: once the game is Done, every mutating call of the manager (add_player,
\* change_player_name, change_player_color, set_ready, draw_destination_cards,
\* select_destination_cards, the train card draws, claim_route) fails and
\* leaves the manager as it was.
C9_DoneRejectsEveryCall ==
  phase = "Done" =>
    \A o \in LobbyOutcomes(Mgr)
               \cup UNION {GameActionOutcomes(Mgr, player_id) :
                             player_id \in PlayerIdInputs} :
      IsErr(o.res) /\ o.m = Mgr

\* A game action has just been refused by a finished game.
C9_Witness ==
  /\ phase = "Done"
  /\ result = "NotStarted"

\* C10: in Starting, select_destination_cards is the only call that can
\* succeed: add_player, change_player_name, change_player_color, set_ready,
\* draw_destination_cards, the train card draws and claim_route all fail and
\* leave the manager as it was.
C10_StartingOnlySelects ==
  phase = "Starting" =>
    /\ \A o \in LobbyOutcomes(Mgr)
                  \cup UNION {DrawAndClaimOutcomes(Mgr, player_id) :
                                player_id \in PlayerIdInputs} :
         IsErr(o.res) /\ o.m = Mgr
    /\ \E player_id \in PlayerIds(Mgr) :
         \E o \in SelectionOutcomes(Mgr, player_id) : o.res = "Ok"

\* In Starting, after the selection of one player has succeeded, a call that
\* belongs to the lobby has been refused.
C10_Witness ==
  /\ phase = "Starting"
  /\ num_players_selected_initial_destination_cards = 1
  /\ result = "NotInLobby"

\* C11: no manager entry point panics on caller misuse: in every phase and
\* for every player_id argument, including an id no player of the game has,
\* every call returns a result value (Ok, Err or None).
C11_NoEntryPointPanics ==
  \A player_id \in PlayerIdInputs :
    \A o \in LobbyOutcomes(Mgr) \cup GameActionOutcomes(Mgr, player_id) :
      o.res # "Panic"

\* The conditions under which a selection may succeed: as many decisions as
\* pending cards, enough cards kept, and, during a turn, a turn that began
\* with a draw of destination cards.
MaySelect(m, player, decisions) ==
  /\ Len(decisions) = Len(player.pending_destination_cards)
  /\ Cardinality({i \in DOMAIN decisions : decisions[i]})
       >= (IF m.phase = "Starting" THEN 2 ELSE 1)
  /\ m.phase # "Starting" =>
       /\ player.turn_actions.turn = m.turn
       /\ player.turn_actions.actions[1] = "DrewDestinationCards"

\* C12: select_destination_cards succeeds only under the conditions above;
\* in every other case, for any decisions array (the empty one included) and
\* for a turn owner who has not acted yet, it returns an error and changes
\* nothing.
C12_SelectDestinationCardsContract ==
  has_game_started(Mgr) = "Ok" =>
    \A player_id \in PlayerIds(Mgr) : \A decisions \in AllDecisions :
      \A o \in select_destination_cards(Mgr, player_id, decisions) :
        \/ o.res = "Ok"
             /\ MaySelect(Mgr, players[players_position[player_id] + 1], decisions)
        \/ IsErr(o.res) /\ o.m = Mgr

\* The outcomes of the handlers of Player for `player`, called with the
\* manager's turn, dealer and map.
\* The calls of a manager handler in `outcomes` that failed left the manager
\* as it was.
ManagerKept(outcomes) == \A o \in outcomes : IsErr(o.res) => o.m = Mgr

\* The calls of a handler of `player` in `outcomes` that failed left the
\* player, the dealer and the map as they were.
PlayerKept(player, outcomes) ==
  \A o \in outcomes :
    IsErr(o.res) => o.player = player /\ o.d = card_dealer[1] /\ o.map = map[1]

\* C13: every manager or player operation that returns an error leaves the
\* whole game state (phase, turn, counters, players, map claims, card decks)
\* exactly as it was before the call.
C13_FailedCallChangesNothing ==
  /\ ManagerKept(add_player(Mgr))
  /\ \A player_id \in PlayerIdInputs :
       /\ \A new_name \in AllNames :
            ManagerKept(change_player_name(Mgr, player_id, new_name))
       /\ \A new_color \in AllPlayerColors :
            ManagerKept(change_player_color(Mgr, player_id, new_color))
       /\ \A is_ready \in BOOLEAN :
            ManagerKept(set_ready(Mgr, player_id, is_ready))
  /\ \A player_id \in PlayerIds(Mgr) :
       /\ \A decisions \in AllDecisions :
            ManagerKept(select_destination_cards(Mgr, player_id, decisions))
       /\ ManagerKept(draw_destination_cards(Mgr, player_id))
       /\ ManagerKept(draw_close_train_card(Mgr, player_id))
       /\ \A card_index \in AllCardIndexes :
            ManagerKept(draw_open_train_card(Mgr, player_id, card_index))
       /\ \A request \in ClaimInputs :
            ManagerKept(claim_route(Mgr, player_id, request.route,
                                   request.parallel_route_index, request.cards))
  /\ has_turn_based_game_started(Mgr) = "Ok" =>
       \A i \in DOMAIN players :
         /\ PlayerKept(players[i],
                       PlayerDrawDestinationCards(players[i], turn[1],
                                                  card_dealer[1], map[1]))
         /\ PlayerKept(players[i],
                       PlayerDrawCloseTrainCard(players[i], turn[1],
                                                card_dealer[1], map[1]))
         /\ \A card_index \in AllCardIndexes :
              PlayerKept(players[i],
                         PlayerDrawOpenTrainCard(players[i], card_index, turn[1],
                                                 card_dealer[1], map[1]))
         /\ \A request \in ClaimInputs :
              PlayerKept(players[i],
                         PlayerClaimRoute(players[i], request.route,
                                          request.parallel_route_index,
                                          request.cards, turn[1], map[1],
                                          card_dealer[1]))
         /\ \A decisions \in AllDecisions :
              PlayerKept(players[i],
                         PlayerSelectDestinationCards(players[i], decisions, turn,
                                                      card_dealer[1], map[1]))

\* A game action has just failed in the player's handler, during a turn in
\* which the player had already acted.
C13_Witness ==
  /\ phase \in {"Playing", "LastTurn"}
  /\ result = "Err"
  /\ \E i \in DOMAIN players : players[i].turn_actions.turn = turn

\* The train cards of the three decks of dealer d, as a multiset.
CardsInDecks(d) ==
  DeckUnion(DeckOfSeq(OpenCards(d.open_train_card_deck)),
            DeckUnion(d.close_train_card_deck, d.discarded_train_card_deck))

\* C14: after every public dealer operation returns (construction, a draw
\* from the closed or the open deck, discard_train_cards, initial_draw),
\* the open deck holds fewer than 3 wild cards, or open + closed + discard
\* together hold fewer than 3 real-coloured cards.
C14_WildCap ==
  card_dealer # Nil =>
    \/ CountOf(card_dealer[1].open_train_card_deck, "wild") < WILD_CARD_LIMIT
    \/ NumNonWild(CardsInDecks(card_dealer[1])) < WILD_CARD_LIMIT

\* The train cards the players hold, as a multiset.
RECURSIVE CardsOfPlayers(_)
CardsOfPlayers(all_players) ==
  IF all_players = <<>> THEN EmptyDeck
  ELSE DeckUnion(Head(all_players).train_cards, CardsOfPlayers(Tail(all_players)))

\* The census the dealer started from: that of the dealer driven on its own
\* when the game has no player, that of the game's dealer otherwise.
StartingCensus ==
  IF players = <<>> THEN AllTrainCards(DealerWildCards, DealerNonWildCards)
  ELSE AllTrainCards(NUM_WILD_CARDS, NUM_NON_WILD_CARDS)

\* C15: after any sequence of operations (initial deal, draws from the open
\* and the closed deck, discards of cards held, reshuffles), for each colour
\* the cards in open + closed + discard plus the cards held by the callers
\* and the players are the starting census: no train card is created, lost
\* or duplicated.
C15_TrainCardsConserved ==
  card_dealer # Nil =>
    DeckUnion(CardsInDecks(card_dealer[1]),
              DeckUnion(extracted, CardsOfPlayers(players))) = StartingCensus

\* Cards lie in the open, the closed and the discarded deck after a caller
\* that holds cards has handed some back.
C15_Witness ==
  /\ card_dealer # Nil
  /\ result = "Ok"
  /\ DeckSize(extracted) > 0
  /\ OpenCards(card_dealer[1].open_train_card_deck) # <<>>
  /\ DeckSize(card_dealer[1].close_train_card_deck) > 0
  /\ DeckSize(card_dealer[1].discarded_train_card_deck) > 0

\* C16: in every dealer state at rest the open deck has exactly 5 slots, and
\* a slot is empty only if the closed deck is empty: whenever the closed deck
\* holds a card, all 5 open slots hold a card.
C16_OpenDeckFull ==
  card_dealer # Nil =>
    /\ Len(card_dealer[1].open_train_card_deck) = NUM_OPEN_TRAIN_CARDS
    /\ DeckSize(card_dealer[1].close_train_card_deck) > 0 =>
         \A i \in DOMAIN card_dealer[1].open_train_card_deck :
           card_dealer[1].open_train_card_deck[i] # None

\* Whether draw_from_open_train_card_deck is to refuse the draw.
OpenDrawRefused(d, card_index, is_second_draw) ==
  \/ card_index >= NUM_OPEN_TRAIN_CARDS
  \/ d.open_train_card_deck[card_index + 1] = None
  \/ is_second_draw /\ is_wild(d.open_train_card_deck[card_index + 1])

\* What a successful draw of slot card_index leaves: the card of the slot is
\* returned and leaves the decks; unless the open deck was reshuffled, the
\* other slots are as before and the slot holds a card taken off the closed
\* deck, or nothing if the closed deck was empty.
OpenDrawDone(d, card_index, o) ==
  LET slot == card_index + 1
      before == d.open_train_card_deck
      after == o.d.open_train_card_deck
  IN /\ o.card = before[slot]
     /\ DeckAdd(CardsInDecks(o.d), o.card, 1) = CardsInDecks(d)
     /\ ~o.reshuffled =>
          /\ \A i \in DOMAIN before : i # slot => after[i] = before[i]
          /\ IF DeckSize(d.close_train_card_deck) = 0
             THEN after[slot] = None
             ELSE /\ after[slot] # None
                  /\ DeckAdd(DeckUnion(o.d.close_train_card_deck,
                                       o.d.discarded_train_card_deck),
                             after[slot], 1)
                       = DeckUnion(d.close_train_card_deck,
                                   d.discarded_train_card_deck)

\* C17: draw_from_open fails, leaving all decks unchanged, when the slot
\* index is out of range, when the slot is empty, or when is_second_draw is
\* true and the slot holds a wild; in every other case it succeeds, returns
\* the card that was in the slot and refills the slot from the closed deck
\* (or leaves it empty if the closed deck is empty).
C17_DrawFromOpen ==
  card_dealer # Nil =>
    \A card_index \in 0..NUM_OPEN_TRAIN_CARDS, is_second_draw \in BOOLEAN :
      \A o \in draw_from_open_train_card_deck(card_dealer[1], card_index,
                                              is_second_draw) :
        IF OpenDrawRefused(card_dealer[1], card_index, is_second_draw)
        THEN o.res = "Err" /\ o.d = card_dealer[1]
        ELSE o.res = "Ok" /\ OpenDrawDone(card_dealer[1], card_index, o)

\* A draw from the open deck has left a slot empty, and the deck shows both
\* a wild card and a card of a real colour.
C17_Witness ==
  /\ card_dealer # Nil
  /\ result = "Ok"
  /\ DeckSize(extracted) > 0
  /\ \E i, j, k \in DOMAIN card_dealer[1].open_train_card_deck :
       /\ card_dealer[1].open_train_card_deck[i] = None
       /\ card_dealer[1].open_train_card_deck[j] = "wild"
       /\ card_dealer[1].open_train_card_deck[k] = "black"

\* The claimer observed under key `route` for parallel index i (from 0).
ClaimerOf(m, route, i) == m.claimer[ParallelRoutes(route)[i + 1]]

Reversed(route) == <<route[2], route[1]>>

\* The parallel indexes of the routes under key `route`.
ParallelIndexes(route) == 0..(Len(ParallelRoutes(route)) - 1)

\* C18: after any sequence of claims, for every adjacent pair (a, b) and
\* parallel index i the claimer observed under key (a, b) is the claimer
\* observed under key (b, a); once a segment is claimed in one direction, a
\* later claim of it in the opposite direction fails, and an otherwise valid
\* one fails as already claimed.
C18_ClaimSeenFromBothEnds ==
  map # Nil =>
    \A route \in RouteKeys :
      /\ Reversed(route) \in RouteKeys
      /\ ParallelIndexes(route) = ParallelIndexes(Reversed(route))
      /\ \A i \in ParallelIndexes(route) :
           /\ ClaimerOf(map[1], route, i) = ClaimerOf(map[1], Reversed(route), i)
           /\ ClaimerOf(map[1], route, i) # Nil =>
                \A player_id \in MapPlayerIds, cards \in MapCardInputs :
                  LET r == claim_route_for_player(map[1], Reversed(route), i,
                                                  cards, player_id)
                      length == US_MAP[ParallelRoutes(route)[i + 1][1]].length
                  IN /\ r.res = "Err"
                     /\ r.map = map[1]
                     /\ (/\ Len(cards) = length
                         /\ \A j \in ParallelIndexes(route) :
                              j # i => ClaimerOf(map[1], route, j) = Nil)
                          => r.err = "AlreadyClaimed"

\* A claim of a segment somebody holds has just been refused.
C18_Witness ==
  /\ map # Nil
  /\ result = "AlreadyClaimed"
  /\ \E route \in RouteKeys : \E i \in ParallelIndexes(route) :
       ClaimerOf(map[1], route, i) # Nil

\* The cells of the two parallel routes of each pair that has two.
ParallelPairs ==
  {ParallelRoutes(route) : route \in {k \in RouteKeys : Len(ParallelRoutes(k)) = 2}}

\* Cards that claim the route of `cell` if nothing else forbids the claim.
ValidCardsFor(cell) ==
  {cards \in MapCardInputs :
     /\ Len(cards) = US_MAP[cell[1]].length
     /\ CommonColor(cards, "wild") # "mixed"
     /\ \/ is_wild(CommonColor(cards, "wild"))
        \/ is_wild(US_MAP[cell[1]].train_colors[cell[2]])
        \/ CommonColor(cards, "wild") = US_MAP[cell[1]].train_colors[cell[2]]}

\* C19: when one of the two parallel segments of a pair is claimed by a
\* player, an otherwise valid claim of the other segment by a different
\* player fails in a game of 2 or 3 players and succeeds in a game of 4 or 5;
\* hence in a game of at most 3 players at most one segment of a pair is
\* ever claimed.
C19_ParallelRoutesByPlayerCount ==
  /\ MapPlayerCounts = 2..5
  /\ \A n \in MapPlayerCounts : MapNew(n).map.parallel_routes_allowed = (n > 3)
  /\ map # Nil =>
       \A route \in RouteKeys : \A i, j \in ParallelIndexes(route) :
         (/\ i # j
          /\ ClaimerOf(map[1], route, i) # Nil
          /\ ClaimerOf(map[1], route, j) = Nil) =>
           \A player_id \in MapPlayerIds :
             \A cards \in ValidCardsFor(ParallelRoutes(route)[j + 1]) :
               ClaimerOf(map[1], route, i) # Some(player_id) =>
                 LET r == claim_route_for_player(map[1], route, j, cards, player_id)
                 IN IF map[1].parallel_routes_allowed
                    THEN r.res = "Ok" /\ ClaimerOf(r.map, route, j) = Some(player_id)
                    ELSE r.res = "Err" /\ r.err = "OtherClaimed" /\ r.map = map[1]
  /\ (map # Nil /\ ~map[1].parallel_routes_allowed) =>
       \A pair \in ParallelPairs :
         map[1].claimer[pair[1]] = Nil \/ map[1].claimer[pair[2]] = Nil

\* Two players hold the two parallel routes of a pair.
C19_Witness ==
  /\ map # Nil
  /\ result = "Ok"
  /\ \E pair \in ParallelPairs :
       /\ map[1].claimer[pair[1]] # Nil
       /\ map[1].claimer[pair[2]] # Nil
       /\ map[1].claimer[pair[1]] # map[1].claimer[pair[2]]

\* C20: in every reachable state, for every player count, no player is the
\* claimer of both parallel segments of a city pair, whichever direction the
\* claims were made in: the holder of one segment is refused the other under
\* both keys of the pair.
C20_NoPlayerHoldsBothParallels ==
  map # Nil =>
    /\ \A pair \in ParallelPairs :
         map[1].claimer[pair[1]] # Nil =>
           map[1].claimer[pair[1]] # map[1].claimer[pair[2]]
    /\ \A route \in RouteKeys : \A i, j \in ParallelIndexes(route) :
         (i # j /\ ClaimerOf(map[1], route, i) # Nil) =>
           \A cards \in MapCardInputs :
             LET r == claim_route_for_player(map[1], route, j, cards,
                                             ClaimerOf(map[1], route, i)[1])
             IN r.res = "Err" /\ r.err = "MoreThanOne" /\ r.map = map[1]

\* In a game where parallel routes may be claimed, the holder of one route
\* of a pair has just been refused the other.
C20_Witness ==
  /\ map # Nil
  /\ map[1].parallel_routes_allowed
  /\ result = "MoreThanOne"

\* The cells of the routes that have a claimer.
ClaimedCells(m) == {c \in Cells : m.claimer[c] # Nil}

\* Hands of each length a route of the model has, of one colour, with wild
\* cards and of mixed colours.
ClaimHands == MapCardInputs \cup {request.cards : request \in MapLongClaims}

\* C21: a segment's claimer, once set, never changes and is never cleared:
\* whatever claim is made next, by any player, under any key and with any
\* hand, every claimed segment keeps its claimer, and a claim of a claimed
\* segment fails and leaves the map unchanged.
C21_ClaimerSetOnce ==
  map # Nil =>
    \A route \in RouteKeys : \A i \in ParallelIndexes(route) :
      \A cards \in ClaimHands, player_id \in MapPlayerIds :
        LET r == claim_route_for_player(map[1], route, i, cards, player_id)
        IN /\ \A c \in ClaimedCells(map[1]) :
                r.map.claimer[c] = map[1].claimer[c]
           /\ ClaimerOf(map[1], route, i) # Nil =>
                r.res = "Err" /\ r.map = map[1]

\* The route of four red cars has a claimer, other routes were claimed
\* after it, and a further claim has just been refused.
C21_Witness ==
  /\ map # Nil
  /\ result = "AlreadyClaimed"
  /\ ClaimerOf(map[1], <<"Dallas", "ElPaso">>, 0) = Some(0)
  /\ Cardinality(ClaimedCells(map[1])) >= 3

\* The hands of n cards over two real colours and wild.
HandsOfLength(n) == [1..n -> {"black", "red", "wild"}]

\* The real colours of a hand.
RealColors(cards) == {cards[k] : k \in {x \in DOMAIN cards : is_not_wild(cards[x])}}

\* The parallel rule lets player_id claim segment i under key `route`: no
\* other segment of the pair is the player's, and none is anybody's unless
\* parallel routes are allowed.
ParallelRuleSatisfied(m, route, i, player_id) ==
  \A j \in ParallelIndexes(route) :
    j # i => /\ ClaimerOf(m, route, j) # Some(player_id)
             /\ ClaimerOf(m, route, j) = Nil \/ m.parallel_routes_allowed

\* C22: a claim of an existing unclaimed segment with a hand of the
\* segment's length and the parallel rule satisfied succeeds if and only if
\* the cards that are not wild have one colour and that colour, if the
\* segment has a real colour, is the segment's; so a wild segment takes any
\* hand of one colour and any segment takes a hand of wild cards.
C22_ColorRule ==
  map # Nil =>
    \A route \in RouteKeys : \A i \in ParallelIndexes(route) :
      LET cell == ParallelRoutes(route)[i + 1]
          train_color == US_MAP[cell[1]].train_colors[cell[2]]
      IN \A player_id \in MapPlayerIds :
           (/\ map[1].claimer[cell] = Nil
            /\ ParallelRuleSatisfied(map[1], route, i, player_id)) =>
             \A cards \in HandsOfLength(US_MAP[cell[1]].length) :
               LET r == claim_route_for_player(map[1], route, i, cards, player_id)
                   one_color == Cardinality(RealColors(cards)) <= 1
                   matches == \A c \in RealColors(cards) :
                                is_wild(train_color) \/ c = train_color
               IN /\ r.res = "Ok" <=> (one_color /\ matches)
                  /\ r.res = "Ok" => r.map.claimer[cell] = Some(player_id)
                  /\ ~one_color => r.err = "MixedColors"
                  /\ (one_color /\ ~matches) => r.err = "WrongColor"

\* A hand of black cards has just been refused on the unclaimed red route.
C22_Witness ==
  /\ map # Nil
  /\ result = "WrongColor"
  /\ ClaimerOf(map[1], <<"Dallas", "ElPaso">>, 0) = Nil
  /\ ClaimedCells(map[1]) # {}

\* The cities one edge away from a city of S, over the edges of which
\* player_id holds at least one parallel segment.
ClaimedStep(m, player_id, S) ==
  {k[2] : k \in {key \in RouteKeys :
                   /\ key[1] \in S
                   /\ \E i \in ParallelIndexes(key) :
                        ClaimerOf(m, key, i) = Some(player_id)}}

\* The cities a non-empty path of such edges reaches from a city of S.
RECURSIVE ClaimedReach(_, _, _)
ClaimedReach(m, player_id, reached) ==
  LET more == reached \cup ClaimedStep(m, player_id, reached)
  IN IF more = reached THEN reached ELSE ClaimedReach(m, player_id, more)

Connected(m, start, end, player_id) ==
  end \in ClaimedReach(m, player_id, ClaimedStep(m, player_id, {start}))

\* The maps one more claim gives: a segment without claimer gets one.
OneMoreClaim(m) ==
  {[m EXCEPT !.claimer[c] = Some(q)] :
     c \in Cells \ ClaimedCells(m), q \in MapPlayerIds}

\* C23: has_player_fulfilled_destination((start, end), p) is true exactly
\* when a non-empty path of edges with a segment claimed by p leads from
\* start to end; for start = end, exactly when a route at the city is
\* claimed by p; the result is the same for (end, start); and one more claim
\* on the map never turns it from true to false.
C23_FulfilledIsReachability ==
  map # Nil =>
    \A player_id \in MapPlayerIds : \A start \in City :
      /\ has_player_fulfilled_destination(map[1], <<start, start>>, player_id)
           <=> ClaimedStep(map[1], player_id, {start}) # {}
      /\ \A end \in City :
           LET fulfilled == has_player_fulfilled_destination(
                              map[1], <<start, end>>, player_id)
           IN /\ fulfilled <=> Connected(map[1], start, end, player_id)
              /\ fulfilled = has_player_fulfilled_destination(
                               map[1], <<end, start>>, player_id)
              /\ fulfilled =>
                   \A more \in OneMoreClaim(map[1]) :
                     has_player_fulfilled_destination(more, <<start, end>>,
                                                      player_id)

\* A player who holds Denver-Santa Fe and El Paso-Santa Fe has connected
\* Denver and El Paso, and Houston to nothing.
C23_Witness ==
  /\ map # Nil
  /\ result = "Ok"
  /\ has_player_fulfilled_destination(map[1], <<"Denver", "ElPaso">>, 0)
  /\ has_player_fulfilled_destination(map[1], <<"Denver", "Denver">>, 0)
  /\ ~has_player_fulfilled_destination(map[1], <<"Houston", "Houston">>, 0)
  /\ ~has_player_fulfilled_destination(map[1], <<"Denver", "Dallas">>, 0)

\* The longest trail that leaves `city` over the claimed routes whose places
\* in the vector are not in `used`: each place of the vector is an edge of
\* its own, two routes between the same cities included.
RECURSIVE LongestTrailFrom(_, _, _)
LongestTrailFrom(claimed_routes, city, used) ==
  LET leaving == {i \in DOMAIN claimed_routes \ used :
                    city \in {claimed_routes[i].route[1], claimed_routes[i].route[2]}}
      OtherEnd(i) == IF claimed_routes[i].route[1] = city
                     THEN claimed_routes[i].route[2]
                     ELSE claimed_routes[i].route[1]
      RECURSIVE Best(_)
      Best(S) ==
        IF S = {} THEN 0
        ELSE LET i == CHOOSE x \in S : TRUE
             IN Max(claimed_routes[i].length
                      + LongestTrailFrom(claimed_routes, OtherEnd(i), used \cup {i}),
                    Best(S \ {i}))
  IN Best(leaving)

LongestTrail(claimed_routes) ==
  LET RECURSIVE Best(_)
      Best(S) ==
        IF S = {} THEN 0
        ELSE LET c == CHOOSE x \in S : TRUE
             IN Max(LongestTrailFrom(claimed_routes, c, {}), Best(S \ {c}))
  IN Best(City)

RECURSIVE TotalLength(_)
TotalLength(claimed_routes) ==
  IF claimed_routes = <<>> THEN 0
  ELSE Head(claimed_routes).length + TotalLength(Tail(claimed_routes))

PointsTable == <<1, 2, 4, 7, 10, 15>>

\* What a successful claim by `player` of the route of length `length`
\* leaves of the player in outcome o.
ClaimBooked(player, request, length, o) ==
  /\ Len(request.cards) = length
  /\ o.player.cars = player.cars - length
  /\ o.player.num_train_cards = player.num_train_cards - length
  /\ DeckUnion(o.player.train_cards, DeckOfSeq(request.cards)) = player.train_cards
  /\ o.player.points = player.points + PointsTable[length]
  /\ o.player.claimed_routes =
       Append(player.claimed_routes,
              [route |-> request.route,
               parallel_route_index |-> request.parallel_route_index,
               length |-> length])

\* C25: for every player in every reachable state, cars plus the lengths of
\* the claimed routes is the number of cars a player starts with, and cars
\* is never negative; a successful claim of a route of length L takes L cars
\* and the L cards of the hand from the claimer, adds the points of the
\* table for L and appends one claimed route; a claim with more cards than
\* the player has cars is rejected.
C25_CarsAccountForRoutes ==
  /\ \A i \in DOMAIN players :
       /\ players[i].cars >= 0
       /\ players[i].cars + TotalLength(players[i].claimed_routes) = NUM_OF_CARS
  /\ has_turn_based_game_started(Mgr) = "Ok" =>
       \A i \in DOMAIN players : \A request \in ClaimInputs :
         \A o \in PlayerClaimRoute(players[i], request.route,
                                   request.parallel_route_index, request.cards,
                                   turn[1], map[1], card_dealer[1]) :
           /\ Len(request.cards) > players[i].cars => o.res = "Err"
           /\ o.res = "Ok" =>
                ClaimBooked(players[i], request,
                            US_MAP[ParallelRoutes(request.route)
                                     [request.parallel_route_index + 1][1]].length,
                            o)

\* A player who claimed two routes has fewer cars left than the cards of a
\* claim the requests hold.
C25_Witness ==
  /\ result = "Ok"
  /\ \E i \in DOMAIN players :
       /\ Len(players[i].claimed_routes) = 2
       /\ players[i].cars < 2

\* No player has pending destination cards in manager m.
NonePending(m) ==
  \A i \in DOMAIN m.players : m.players[i].pending_destination_cards = <<>>

\* The player has drawn destination cards in the turn that is now played and
\* has done nothing since.
HasJustDrawnDestinationCards(player) ==
  /\ player = TurnOwner(players, turn)
  /\ player.turn_actions =
       [turn |-> turn, actions |-> <<"DrewDestinationCards">>]

\* C26: a player's pending destination cards are never more than 3; in the
\* lobby there are none; in Starting a player has pending cards exactly
\* until that player's initial selection; once the game is turn-based only
\* the player whose turn it is has pending cards, and only after drawing
\* destination cards in this turn as its only action; and whenever a call
\* changes the turn, no player has pending cards afterwards.
C26_PendingUntilSelected ==
  /\ \A i \in DOMAIN players :
       Len(players[i].pending_destination_cards) <= NUM_DRAWN_DESTINATION_CARDS
  /\ phase = "InLobby" => NonePending(Mgr)
  /\ phase = "Starting" =>
       \A i \in DOMAIN players :
         players[i].pending_destination_cards # <<>>
           <=> ~HasSelectedInitially(players[i])
  /\ turn # Nil =>
       \A i \in DOMAIN players :
         players[i].pending_destination_cards # <<>>
           => phase # "Done" /\ HasJustDrawnDestinationCards(players[i])
  /\ \A player_id \in PlayerIds(Mgr) :
       \A o \in GameActionOutcomes(Mgr, player_id) :
         o.m.turn # turn => o.res = "Ok" /\ NonePending(o.m)

\* In the last turn, a player holds the destination cards just drawn.
C26_Witness ==
  /\ phase = "LastTurn"
  /\ result = "Ok"
  /\ \E i \in DOMAIN players :
       /\ Len(players[i].pending_destination_cards) = NUM_DRAWN_DESTINATION_CARDS
       /\ Len(players[i].selected_destination_cards) >= 2

\* The two train-card draws that do not end a turn by themselves.
PlainDraws == {"DrewOpenNonWildTrainCard", "DrewCloseTrainCard"}

\* The action logs a turn may hold.
TurnLogs ==
  {<<"ClaimedRoute">>, <<"DrewOpenWildTrainCard">>,
   <<"DrewDestinationCards">>,
   <<"DrewDestinationCards", "SelectedDestinationCards">>}
    \cup {<<a>> : a \in PlainDraws}
    \cup {<<a, b>> : <<a, b>> \in PlainDraws \X PlainDraws}

\* The log of a player of manager m is the log of one turn, or, before the
\* player's first turn, empty or the initial selection alone.
LogWellFormed(player) ==
  IF player.turn_actions.turn = Nil
  THEN player.turn_actions.actions \in {<<>>, <<"SelectedDestinationCards">>}
  ELSE player.turn_actions.actions \in TurnLogs

\* C27: the action log of a turn is [ClaimedRoute], [DrewOpenWildTrainCard],
\* one or two draws each an open non-wild or a closed card,
\* [DrewDestinationCards], or [DrewDestinationCards,
\* SelectedDestinationCards]; it holds in every state and after every game
\* call of every player, and a logged turn is one of the player's own turns,
\* not after the manager's.
C27_TurnLogShape ==
  /\ \A i \in DOMAIN players :
       /\ LogWellFormed(players[i])
       /\ players[i].turn_actions.turn # Nil =>
            /\ turn # Nil
            /\ players[i].turn_actions.turn[1] <= turn[1]
            /\ TurnOwner(players, players[i].turn_actions.turn) = players[i]
  /\ \A player_id \in PlayerIds(Mgr) :
       \A o \in GameActionOutcomes(Mgr, player_id) :
         \A j \in DOMAIN o.m.players : LogWellFormed(o.m.players[j])

\* One player's last turn was two plain draws, the other's a destination
\* draw and its selection.
C27_Witness ==
  /\ result = "Ok"
  /\ \E i, j \in DOMAIN players :
       /\ Len(players[i].turn_actions.actions) = 2
       /\ players[i].turn_actions.actions[1] \in PlainDraws
       /\ players[i].turn_actions.actions[2] \in PlainDraws
       /\ players[j].turn_actions.turn # Nil
       /\ players[j].turn_actions.actions =
            <<"DrewDestinationCards", "SelectedDestinationCards">>

\* Open decks late in a game, when the closed deck cannot fill the slots.
ScarceOpenDecks ==
  { <<"black", "wild", None, None, None>>,
    <<"black", "black", None, None, None>>,
    <<"black", None, None, None, None>>,
    <<"wild", None, None, None, None>> }

\* The dealer d late in a game: nothing discarded, at most one card in the
\* closed deck, and an open deck with empty slots.
ScarceDealers(d) ==
  {[d EXCEPT !.close_train_card_deck = close,
             !.discarded_train_card_deck = EmptyDeck,
             !.open_train_card_deck = open] :
     close \in {EmptyDeck, DeckOfSeq(<<"black">>)}, open \in ScarceOpenDecks}

\* The manager m, and m with its dealer late in a game.
ScarceManagers(m) ==
  {m} \cup {[m EXCEPT !.card_dealer = Some(d)] : d \in ScarceDealers(m.card_dealer[1])}

\* The dealer has a card a player may take as a second draw.
Drawable(d) ==
  \/ \E c \in TrainColor : d.close_train_card_deck[c] > 0
  \/ \E i \in DOMAIN d.open_train_card_deck :
       d.open_train_card_deck[i] \in TrainColor \ {"wild"}

NextTurn(m) == Some(m.turn[1] + 1)

\* The turn after a successful first draw of a card that is not an open wild.
TurnAfterFirstDraw(m, o) ==
  o.m.turn = IF Drawable(o.m.card_dealer[1]) THEN m.turn ELSE NextTurn(m)

\* The rule of C28 for the train-card draws of the player whose turn it is.
DrawRule(m) ==
  LET player == TurnOwner(m.players, m.turn)
      is_first == player.turn_actions.turn # m.turn
      open == m.card_dealer[1].open_train_card_deck
  IN
  /\ \A o \in draw_close_train_card(m, player.id) :
       o.res = "Ok" =>
         IF is_first THEN TurnAfterFirstDraw(m, o) ELSE o.m.turn = NextTurn(m)
  /\ \A card_index \in 0..(NUM_OPEN_TRAIN_CARDS - 1) :
       \A o \in draw_open_train_card(m, player.id, card_index) :
         /\ (~is_first /\ open[card_index + 1] = "wild") =>
              o.res = "Err" /\ o.m = m
         /\ o.res = "Ok" =>
              IF is_first /\ open[card_index + 1] # "wild"
              THEN TurnAfterFirstDraw(m, o)
              ELSE o.m.turn = NextTurn(m)

\* C28: for the player whose turn it is, a successful first train-card draw
\* that is not an open wild leaves turn unchanged when the dealer, after the
\* draw, has a card in the closed deck or a non-wild card in the open deck,
\* and otherwise advances turn by 1; a successful open-wild first draw and
\* every successful second draw advance turn by 1; an open wild asked for as
\* the second draw is refused and nothing changes.
C28_DrawsAndTurn ==
  (phase \in {"Playing", "LastTurn"}) =>
    \A m \in ScarceManagers(Mgr) : DrawRule(m)

\* Two draws have just ended a player's turn; the next player's first draw of
\* a closed card would leave the turn with them, and were the dealer down to
\* its last cards, their first draw of an open card that is not wild would
\* end the turn.
C28_Witness ==
  /\ phase \in {"Playing", "LastTurn"}
  /\ result = "Ok"
  /\ turn[1] >= 1
  /\ LET previous == TurnOwner(players, Some(turn[1] - 1))
         player == TurnOwner(players, turn)
     IN
     /\ previous.turn_actions =
          [turn |-> Some(turn[1] - 1),
           actions |-> <<"DrewOpenNonWildTrainCard", "DrewCloseTrainCard">>]
     /\ player.turn_actions.turn # turn
     /\ \E o \in draw_close_train_card(Mgr, player.id) :
          o.res = "Ok" /\ o.m.turn = turn
     /\ \E m \in ScarceManagers(Mgr) :
          \E card_index \in 0..(NUM_OPEN_TRAIN_CARDS - 1) :
            \E o \in draw_open_train_card(m, player.id, card_index) :
              /\ o.res = "Ok"
              /\ m.card_dealer[1].open_train_card_deck[card_index + 1] # "wild"
              /\ o.m.turn = NextTurn(m)

\* Private states another player might have instead of its own.
PrivateInputs ==
  { [train_cards |-> EmptyDeck, pending_destination_cards |-> <<>>,
     selected_destination_cards |-> <<>>],
    [train_cards |-> DeckOfSeq(<<"black", "wild">>),
     pending_destination_cards |-> <<>>,
     selected_destination_cards |-> <<1, 2>>],
    [train_cards |-> DeckOfSeq(<<"black">>),
     pending_destination_cards |-> <<7, 8, 9>>,
     selected_destination_cards |-> <<3>>] }

\* The player with the private state `private`.
WithPrivate(player, private) ==
  [f \in DOMAIN player |-> IF f \in PrivateFields THEN private[f] ELSE player[f]]

\* The managers that differ from m at most in the private state of the
\* players other than viewer.
OthersPrivateVaried(m, viewer) ==
  {[m EXCEPT !.players =
      [i \in DOMAIN m.players |->
         IF m.players[i].id = viewer THEN m.players[i]
         ELSE WithPrivate(m.players[i], private[i])]] :
     private \in [DOMAIN m.players -> PrivateInputs]}

\* C29: for every viewer, get_state lists one entry per player in the order
\* of the players vector, which is the turn order; every entry carries the
\* player's public state; the entry of the player whose id is the viewer's
\* carries that player's train cards, pending and selected destination
\* cards, and no other entry carries a private state; and a game that
\* differs only in the private state of the other players gives the viewer
\* the same state.
C29_ViewerSeesOwnPrivateOnly ==
  \A viewer \in PlayerIdInputs :
    LET state == get_state(Mgr, viewer) IN
    /\ state.phase = phase /\ state.turn = turn
    /\ DOMAIN state.players_state = DOMAIN players
    /\ \A i \in DOMAIN players :
         LET player_state == state.players_state[i] IN
         /\ \A f \in (DOMAIN players[i]) \ PrivateFields :
              player_state.public_player_state[f] = players[i][f]
         /\ DOMAIN player_state.public_player_state \cap PrivateFields = {}
         /\ IF players[i].id = viewer
            THEN /\ player_state.private_player_state # Nil
                 /\ \A f \in PrivateFields :
                      player_state.private_player_state[1][f] = players[i][f]
            ELSE player_state.private_player_state = Nil
    /\ turn # Nil =>
         state.players_state[(turn[1] % Len(players)) + 1].public_player_state
           = PublicPlayerState(TurnOwner(players, turn))
    /\ \A m \in OthersPrivateVaried(Mgr, viewer) :
         get_state(m, viewer) = state

\* A game in play where the players hold different train cards, and each
\* sees its own cards and not the other's.
C29_Witness ==
  /\ phase = "Playing"
  /\ Len(players) = 2
  /\ players[1].train_cards # players[2].train_cards
  /\ players[1].selected_destination_cards # <<>>
  /\ players[2].selected_destination_cards # <<>>
  /\ \A i \in DOMAIN players :
       LET state == get_state(Mgr, players[i].id) IN
       /\ state.players_state[i].private_player_state
            = Some(PrivatePlayerState(players[i]))
       /\ state.players_state[3 - i].private_player_state = Nil
       /\ \E m \in OthersPrivateVaried(Mgr, players[i].id) : m # Mgr

NamesHeld(m) == {m.players[i].name : i \in DOMAIN m.players}

ColorsHeld(m) == {m.players[i].color : i \in DOMAIN m.players}

\* C30: in the lobby, after any calls of add_player, change_player_name and
\* change_player_color, there are at most MAX_PLAYERS players, the player at
\* position i of the vector has id i, and no two players have the same name
\* or the same colour; add_player, while there is room, has a default name
\* and a colour that no player holds and appends a player with them,
\* changing no other player; and a rename or recolour, by any id, to a name
\* or colour that some player holds, the caller included, returns an error
\* and changes nothing.
C30_LobbyUnique ==
  LET n == Len(players) IN
  /\ n <= MAX_PLAYERS
  /\ \A i \in DOMAIN players : players[i].id = i - 1
  /\ \A i, j \in DOMAIN players :
       i # j => /\ players[i].name # players[j].name
                /\ players[i].color # players[j].color
  /\ \A o \in add_player(Mgr) :
       IF n = MAX_PLAYERS THEN o.res = "None" /\ o.m = Mgr
       ELSE /\ \E id_length \in 1..MAX_PLAYERS :
                 FormatPlayerName(n, id_length) \notin NamesHeld(Mgr)
            /\ \E k \in DOMAIN PlayerColor : PlayerColor[k] \notin ColorsHeld(Mgr)
            /\ o.res = "Ok"
            /\ Len(o.m.players) = n + 1
            /\ SubSeq(o.m.players, 1, n) = players
            /\ o.m.players[n + 1].id = n
            /\ o.m.players[n + 1].name \notin NamesHeld(Mgr)
            /\ o.m.players[n + 1].color \notin ColorsHeld(Mgr)
  /\ \A player_id \in PlayerIdInputs :
       /\ \A new_name \in NamesHeld(Mgr) :
            change_player_name(Mgr, player_id, new_name)
              = {[res |-> "AlreadyUsed", m |-> Mgr]}
       /\ \A new_color \in ColorsHeld(Mgr) :
            change_player_color(Mgr, player_id, new_color)
              = {[res |-> "AlreadyUsed", m |-> Mgr]}

\* The first player took the name "Player 1" and the first colour but one,
\* the second player joined under a padded default name and the first
\* colour, and the last call, a rename or recolour, was refused.
C30_Witness ==
  /\ Len(players) = MAX_PLAYERS
  /\ players[1].name = "Player 1"
  /\ players[2].name = "Player 01"
  /\ players[1].color = PlayerColor[2]
  /\ players[2].color = PlayerColor[1]
  /\ result = "AlreadyUsed"

\* The points of the routes a player claimed.
RECURSIVE RoutePoints(_)
RoutePoints(claimed_routes) ==
  IF claimed_routes = <<>> THEN 0
  ELSE PointsTable[Head(claimed_routes).length] + RoutePoints(Tail(claimed_routes))

\* +points for each card whose cities the player's routes connect, -points
\* for each of the others.
RECURSIVE SignedDestinationSum(_, _, _)
SignedDestinationSum(cards, m, player_id) ==
  IF cards = <<>> THEN 0
  ELSE LET card == DestinationCards[Head(cards)]
       IN (IF Connected(m, card.destination[1], card.destination[2], player_id)
           THEN card.points ELSE 0 - card.points)
          + SignedDestinationSum(Tail(cards), m, player_id)

Guarded == {r \in Requests : requests[r].pc \notin {"idle", "routed"}}

\* C32: requests against one game are serialized by the guard they hold.  At
\* most one request is inside a mutating handler, and then no other request
\* is inside any handler; the manager a request found when it took its guard
\* is still the manager while it reads, and while add_player is between
\* reading the number of players and pushing the player; so there are never
\* more than MAX_PLAYERS players, the player at position i has id i, and what
\* get_state has read, in part or in whole, is the state of the one manager
\* the request found, for its viewer.
C32_RequestsSerialized ==
  /\ shard.writer # Nil => shard.readers = {}
  /\ Guarded = shard.readers \cup {r \in Requests : shard.writer = Some(r)}
  /\ \A r \in Guarded :
       /\ requests[r].kind \in WriteKinds <=> shard.writer = Some(r)
       /\ requests[r].pc \in {"guarded", "pushing", "reading"} =>
            requests[r].held = Some(Mgr)
  /\ \A r, q \in Guarded :
       (r # q) => requests[r].kind \in ReadKinds /\ requests[q].kind \in ReadKinds
  /\ Len(players) <= MAX_PLAYERS
  /\ \A i \in DOMAIN players : players[i].id = i - 1
  /\ \A r \in Requests :
       /\ requests[r].pc = "pushing" => requests[r].seen = Some(Len(players))
       /\ requests[r].pc = "reading" =>
            LET state == get_state(requests[r].held[1], requests[r].player_id) IN
            /\ requests[r].seen[1].phase = state.phase
            /\ requests[r].seen[1].turn = state.turn
            /\ requests[r].seen[1].card_dealer_state = state.card_dealer_state
       /\ (requests[r].pc = "served" /\ requests[r].kind \in ReadKinds) =>
            /\ requests[r].seen =
                 Some(get_state(requests[r].held[1], requests[r].player_id))
            /\ requests[r].held = Some(Mgr)

\* The game is full and a player was refused a colour; one request has read
\* the state of all the players and still holds its guard, and another, a
\* page load, waits for it.
C32_Witness ==
  /\ Len(players) = MAX_PLAYERS
  /\ result = "AlreadyUsed"
  /\ shard.readers # {}
  /\ \E r \in shard.readers :
       /\ requests[r].pc = "served"
       /\ Len(requests[r].seen[1].players_state) = MAX_PLAYERS
  /\ \E r \in Requests :
       requests[r].pc = "routed" /\ requests[r].kind = "load_game"

\* The open deck shows at most two wild cards, or the three decks together
\* hold fewer than three cards that are not wild.
Normalised(d) ==
  \/ CountOf(d.open_train_card_deck, "wild") < WILD_CARD_LIMIT
  \/ Cardinality({i \in DOMAIN d.open_train_card_deck :
                    d.open_train_card_deck[i] \in TrainColor \ {"wild"}})
       + NumNonWild(d.close_train_card_deck)
       + NumNonWild(d.discarded_train_card_deck) < WILD_CARD_LIMIT

\* C33: with fair shuffles the normalisation of the open deck terminates:
\* from every dealer, a dealer that must be reshuffled leads to one whose
\* open deck shows at most two wild cards or whose decks hold fewer than
\* three cards that are not wild.
C33_NormalisationTerminates ==
  should_reshuffle_open_train_card_deck(card_dealer[1])
    ~> Normalised(card_dealer[1])


\* The check a claim fails first when the checks are made in the order pair,
\* index, number of cards, claimer of the route, parallel routes, one colour,
\* colour of the route; None when it fails none.
FirstOfStatedOrder(m, route, parallel_route_index, cards, player_id) ==
  IF route \notin RouteKeys THEN "NoRoute"
  ELSE
    LET parallel_routes == ParallelRoutes(route)
        num_parallel_routes == Len(parallel_routes)
    IN
    IF parallel_route_index >= num_parallel_routes THEN "NoParallelRoute"
    ELSE
      LET other == parallel_routes[((parallel_route_index + 1) % num_parallel_routes) + 1]
          cell == parallel_routes[parallel_route_index + 1]
          common_color == CommonColor(cards, "wild")
          train_color == US_MAP[cell[1]].train_colors[cell[2]]
      IN
      IF US_MAP[cell[1]].length # Len(cards) THEN "Length"
      ELSE IF m.claimer[cell] # Nil THEN "AlreadyClaimed"
      ELSE IF num_parallel_routes > 1 /\ m.claimer[other] = Some(player_id)
      THEN "MoreThanOne"
      ELSE IF num_parallel_routes > 1 /\ m.claimer[other] # Nil
                /\ ~m.parallel_routes_allowed
      THEN "OtherClaimed"
      ELSE IF common_color = "mixed" THEN "MixedColors"
      ELSE IF is_not_wild(common_color) /\ is_not_wild(train_color)
                /\ train_color # common_color
      THEN "WrongColor"
      ELSE None

\* C34: a claim that breaks several rules is refused with the error of the
\* first one in the order pair, index, number of cards, route unclaimed,
\* parallel routes, one colour, colour of the route.
C34_FirstViolatedReported ==
  \A route \in MapRouteInputs, parallel_route_index \in MapIndexInputs,
     cards \in MapCardInputs, player_id \in MapPlayerIds :
    can_route_be_claimed_by_player(map[1], route, parallel_route_index,
                                   cards, player_id).err
      = FirstOfStatedOrder(map[1], route, parallel_route_index, cards, player_id)

\* Every card the draws give, in the order they give them, until the deck
\* is empty.
RECURSIVE DrawnUntilEmpty(_)
DrawnUntilEmpty(d) ==
  LET r == draw_from_destination_card_deck(d)
  IN IF r.res = "Err" THEN <<>> ELSE r.cards \o DrawnUntilEmpty(r.d)

\* The cards a caller can hand back at once: some of its pending cards, in
\* any order.
ReturnInputs ==
  LET pending == players[1].pending_destination_cards
  IN {cards \in UNION {[1..n -> {pending[i] : i \in DOMAIN pending}] :
                         n \in 1..Len(pending)} :
        \A i, j \in DOMAIN cards : i # j => cards[i] # cards[j]}

\* C35: cards handed back are drawn again only after every card that was in
\* the deck: they go to the end the draws do not take from and leave the
\* order of the deck as it was.  A draw gives one to three cards, and fails,
\* changing nothing, only on an empty deck.
C35_ReturnedCardsDrawnLast ==
  LET d == card_dealer[1]
      deck == d.destination_card_deck
      r == draw_from_destination_card_deck(d)
  IN /\ r.res = "Err" <=> deck = <<>>
     /\ r.res = "Err" => r.d = d /\ r.cards = <<>>
     /\ r.res = "Ok" =>
          /\ Len(r.cards) \in 1..NUM_DRAWN_DESTINATION_CARDS
          /\ Len(r.cards) = NUM_DRAWN_DESTINATION_CARDS \/ r.d.destination_card_deck = <<>>
          /\ deck = r.d.destination_card_deck
                      \o [i \in 1..Len(r.cards) |-> r.cards[Len(r.cards) + 1 - i]]
     /\ \A cards \in ReturnInputs :
          LET e == discard_destination_cards(d, cards)
          IN /\ Len(e.destination_card_deck) = Len(deck) + Len(cards)
             /\ SubSeq(e.destination_card_deck, Len(cards) + 1,
                       Len(e.destination_card_deck)) = deck
             /\ DrawnUntilEmpty(e) = DrawnUntilEmpty(d) \o cards
             /\ [e EXCEPT !.destination_card_deck = deck] = d

\* A draw has just given the last card that was left of the first deck and,
\* after it, a card that had been handed back.
C35_Witness ==
  /\ result = "Ok"
  /\ \E i \in 1..Len(players[1].pending_destination_cards) - 1 :
       /\ players[1].pending_destination_cards[i] = 1
       /\ players[1].pending_destination_cards[i + 1] > 1

\* The greatest of the lengths the threads found from the cities in S.
RECURSIVE LongestFrom(_, _)
LongestFrom(claimed_routes, S) ==
  IF S = {} THEN 0
  ELSE LET city == CHOOSE x \in S : TRUE
       IN Max(get_longest_route_from_city(city, claimed_routes, {}, 0),
              LongestFrom(claimed_routes, S \ {city}))

\* A thread of the pool waits in tx.send.
Sending(w) == pool.workers[w] # Nil

\* C36 (at every moment): a call has received one result for each city it
\* received from and holds the greatest of them; a call that returned has
\* received from every end of its claimed routes once and returns the
\* longest route; a thread that waits in tx.send waits for a call that still
\* has results to receive; and only the call that holds the lock has jobs in
\* the pool.
C36_PoolSafe ==
  /\ \A c \in Calls :
       LET call == pool.calls[c]
           all == CitiesToVisit(call.claimed_routes)
       IN /\ call.num_received = Cardinality(call.received_from)
          /\ call.received_from \subseteq all
          /\ call.longest_route = LongestFrom(call.claimed_routes, call.received_from)
          /\ call.pc = "returned" =>
               /\ call.received_from = all
               /\ call.longest_route = get_longest_route(call.claimed_routes)
  /\ \A w \in 1..NumWorkers :
       Sending(w) =>
         LET job == pool.workers[w][1]
             call == pool.calls[job.call]
         IN /\ w <= pool.num_threads
            /\ pool.holder = Some(job.call)
            /\ call.pc \in {"spawning", "receiving"}
            /\ job.city \notin call.received_from
            /\ \A v \in 1..NumWorkers :
                 (v # w /\ Sending(v)) => pool.workers[v][1].city # job.city
  /\ \A i \in DOMAIN pool.queue : pool.holder = Some(pool.queue[i].call)

\* C36: with a pool of any size from one thread on and the threads run in
\* any order, the calls of get_longest_route all return, each with the
\* longest route of its game, and no thread is left waiting in tx.send.
C36_CallsComplete ==
  /\ []C36_PoolSafe
  /\ <>[](/\ \A c \in Calls : pool.calls[c].pc = "returned"
          /\ \A w \in 1..NumWorkers : ~Sending(w))

\* Two calls for different games have returned on a pool of one thread, the
\* second with the route of four cars that its three cities give.
C36_Witness ==
  /\ pool.num_threads = 1
  /\ \A c \in Calls : pool.calls[c].pc = "returned"
  /\ pool.calls[1].claimed_routes # pool.calls[2].claimed_routes
  /\ Cardinality(pool.calls[2].received_from) = 3
  /\ result = 4

\* C37: whenever a dealer operation has returned, a closed deck that is
\* empty goes with a discarded deck that is empty; so a draw from the closed
\* deck fails only when both are empty, and a draw that fails leaves the
\* dealer as it was.
C37_EmptyClosedMeansEmptyDiscard ==
  LET d == card_dealer[1]
      no_cards == DeckSize(d.close_train_card_deck) = 0
                    /\ DeckSize(d.discarded_train_card_deck) = 0
  IN /\ DeckSize(d.close_train_card_deck) = 0
          => DeckSize(d.discarded_train_card_deck) = 0
     /\ \A o \in draw_from_close_train_card_deck(d) :
          /\ o.res = "Err" <=> no_cards
          /\ o.res = "Err" => o.d = d
          /\ o.res = "Ok" =>
               (DeckSize(o.d.close_train_card_deck) = 0
                  => DeckSize(o.d.discarded_train_card_deck) = 0)

\* A draw from the closed deck has just failed, after callers took cards
\* and discarded some: the closed and the discarded deck are both empty.
C37_Witness ==
  /\ result = "Err"
  /\ DeckSize(card_dealer[1].close_train_card_deck) = 0
  /\ DeckSize(card_dealer[1].discarded_train_card_deck) = 0
  /\ DeckSize(extracted) > NUM_OPEN_TRAIN_CARDS
  /\ \A o \in draw_from_close_train_card_deck(card_dealer[1]) : o.res = "Err"

\* The destination cards the players hold, pending and selected, player
\* after player.
RECURSIVE DestinationCardsHeld(_)
DestinationCardsHeld(ps) ==
  IF ps = <<>> THEN <<>>
  ELSE Head(ps).pending_destination_cards \o Head(ps).selected_destination_cards
         \o DestinationCardsHeld(Tail(ps))

\* C38: once the game has started every destination card is in exactly one
\* place, the deck or the pending or selected cards of one player; and a
\* draw of destination cards succeeds only for a player that has no pending
\* card, whose pending cards become the cards off the deck.
C38_DestinationCardsPartitioned ==
  phase # "InLobby" =>
    LET deck == card_dealer[1].destination_card_deck
        everywhere == deck \o DestinationCardsHeld(players)
    IN /\ Len(everywhere) = NumDestinationCards
       /\ {everywhere[i] : i \in DOMAIN everywhere} = 1..NumDestinationCards
       /\ \A player_id \in PlayerIdInputs :
            \A o \in draw_destination_cards(Mgr, player_id) :
              o.res = "Ok" =>
                LET player_index == get_player_index(Mgr, player_id)[1]
                    before == players[player_index + 1]
                    after == o.m.players[player_index + 1]
                IN /\ before.pending_destination_cards = <<>>
                   /\ after.selected_destination_cards
                        = before.selected_destination_cards
                   /\ after.pending_destination_cards
                        = draw_from_destination_card_deck(card_dealer[1]).cards
                   /\ \A i \in DOMAIN players :
                        i # player_index + 1 => o.m.players[i] = players[i]

\* A player holds the three cards it has just drawn in its turn, off a deck
\* whose first card came back from an initial selection, and every player
\* has selected cards.
C38_Witness ==
  /\ phase \in {"Playing", "LastTurn"}
  /\ result = "Ok"
  /\ \E i \in DOMAIN players :
       Len(players[i].pending_destination_cards) = NUM_DRAWN_DESTINATION_CARDS
  /\ \A i \in DOMAIN players : Len(players[i].selected_destination_cards) >= 2
  /\ card_dealer[1].destination_card_deck # <<>>
  /\ card_dealer[1].destination_card_deck[1] > NUM_DRAWN_DESTINATION_CARDS

\* The ids of the players, in the order of the list.
IdsInOrder(ps) == [i \in DOMAIN ps |-> ps[i].id]

\* players_position maps the ids of the players one to one onto the
\* positions of the list, each id to the position of its player; and of any
\* N turns in a row, from the current one on, each player owns exactly one.
TurnOrderIsABijection ==
  phase # "InLobby" =>
    LET N == num_players(Mgr) IN
    /\ DOMAIN players_position = PlayerIds(Mgr)
    /\ Cardinality(PlayerIds(Mgr)) = N
    /\ \A id \in PlayerIds(Mgr) :
         /\ players_position[id] \in 0..(N - 1)
         /\ players[players_position[id] + 1].id = id
         /\ get_player_index(Mgr, id) = Some(players_position[id])
    /\ turn # Nil =>
         \A id \in PlayerIds(Mgr) :
           /\ is_player_turn(Mgr, players_position[id]) = "Ok"
                <=> players_position[id] = turn[1] % N
           /\ Cardinality({j \in 0..(N - 1) :
                             is_player_turn([Mgr EXCEPT !.turn = Some(turn[1] + j)],
                                            players_position[id]) = "Ok"}) = 1

\* C39: the order of the turns is fixed when the game starts: the map from
\* ids to positions is a bijection onto the positions of the shuffled list
\* and neither it nor the list's order changes afterwards, the turn moves
\* one by one, and so of any N turns in a row each player owns exactly one.
C39_TurnOrderFixed ==
  /\ []TurnOrderIsABijection
  /\ [][phase # "InLobby" =>
          /\ players_position' = players_position
          /\ IdsInOrder(players') = IdsInOrder(players)
          /\ turn' # turn =>
               turn' = Some(IF turn = Nil THEN 0 ELSE turn[1] + 1)]_vars

\* The second turn of a game whose shuffle put the player who joined last
\* in front.
C39_Witness ==
  /\ phase \in {"Playing", "LastTurn"}
  /\ turn = Some(1)
  /\ players[1].id = MAX_PLAYERS - 1
  /\ players_position[MAX_PLAYERS - 1] = 0
  /\ result = "Ok"


\* The player whose turn it is has logged an action in this turn.
MidTurn(m) == TurnOwner(m.players, m.turn).turn_actions.turn = m.turn

\* Every outcome of the call is a success that ends the turn of manager m,
\* and the call has an outcome.
CompletesTurn(m, outcomes) ==
  /\ outcomes # {}
  /\ \A o \in outcomes : o.res = "Ok" /\ o.m.turn = NextTurn(m)

\* In manager m a second draw of a train card succeeds and ends the turn:
\* the draw from a closed deck that has a card, and, once the closed deck
\* is empty, the draw of each open card that is not wild; with cards in the
\* closed deck the draw of an open card that is not wild never fails.
SecondDrawSucceeds(m) ==
  LET player == TurnOwner(m.players, m.turn)
      d == m.card_dealer[1]
      closed == DeckSize(d.close_train_card_deck) # 0
      slots == {i \in DOMAIN d.open_train_card_deck :
                  d.open_train_card_deck[i] \in TrainColor \ {"wild"}}
  IN
  /\ closed \/ slots # {}
  /\ closed => CompletesTurn(m, draw_close_train_card(m, player.id))
  /\ \A i \in slots :
       LET outcomes == draw_open_train_card(m, player.id, i - 1) IN
       IF closed THEN outcomes = {} \/ CompletesTurn(m, outcomes)
       ELSE CompletesTurn(m, outcomes)

\* Keeping every pending destination card succeeds and ends the turn.
KeepingAllSucceeds(m) ==
  LET player == TurnOwner(m.players, m.turn)
      pending == player.pending_destination_cards
  IN
  /\ pending # <<>>
  /\ CompletesTurn(m, select_destination_cards(m, player.id,
                                              [i \in DOMAIN pending |-> TRUE]))

\* The turn that manager m is in the middle of can be completed.
CanCompleteTurn(m) ==
  LET actions == TurnOwner(m.players, m.turn).turn_actions.actions IN
  /\ Len(actions) = 1
  /\ \/ actions[1] \in PlainDraws /\ SecondDrawSucceeds(m)
     \/ actions[1] = "DrewDestinationCards" /\ KeepingAllSucceeds(m)

\* The managers a successful first action of the player whose turn it is
\* leaves in the same turn.
FirstActionsLeavingTurnOpen(m) ==
  LET player == TurnOwner(m.players, m.turn) IN
  {o.m : o \in {x \in draw_close_train_card(m, player.id)
                        \cup draw_destination_cards(m, player.id)
                        \cup UNION {draw_open_train_card(m, player.id, card_index) :
                                      card_index \in 0..(NUM_OPEN_TRAIN_CARDS - 1)} :
                  x.res = "Ok" /\ x.m.turn = m.turn}}

\* C40: a turn that has started can be completed: whenever the player whose
\* turn it is has acted in this turn, its log is one train-card draw and a
\* second draw succeeds (every draw from a closed deck that has a card and
\* every draw of an open card that is not wild), or its log is one draw of
\* destination cards and selecting every pending card succeeds; and the same
\* holds after every first action that leaves the turn open, also when the
\* dealer is down to its last cards.
C40_StartedTurnCanBeCompleted ==
  (phase \in {"Playing", "LastTurn"}) =>
    /\ MidTurn(Mgr) => CanCompleteTurn(Mgr)
    /\ \A m \in ScarceManagers(Mgr) :
         ~MidTurn(m) =>
           \A after \in FirstActionsLeavingTurnOpen(m) :
             MidTurn(after) /\ CanCompleteTurn(after)

\* A player has drawn one closed card in its turn, the turn is still open and
\* a second draw completes it; and it would, too, were the dealer down to an
\* empty closed deck and one open card that is not wild.
C40_Witness ==
  /\ phase \in {"Playing", "LastTurn"}
  /\ result = "Ok"
  /\ MidTurn(Mgr)
  /\ TurnOwner(players, turn).turn_actions.actions = <<"DrewCloseTrainCard">>
  /\ SecondDrawSucceeds(Mgr)
  /\ \E m \in ScarceManagers(Mgr) :
       /\ DeckSize(m.card_dealer[1].close_train_card_deck) = 0
       /\ SecondDrawSucceeds(m)

====
